---------------------------- MODULE Spec2Model ----------------------------
(***************************************************************************)
(* A model of zod-fast-check (src/src/zod-fast-check.ts): the compiler     *)
(* that turns a zod schema tree into a fast-check arbitrary.               *)
(*                                                                         *)
(* The parts of the program are modelled each with a specification of its  *)
(* own over the shared variables:                                          *)
(*   Spec           the override registry and the traversal (inputWithPath)*)
(*   SpecGuard      one closure returned by throwIfSuccessRateBelow        *)
(*   SpecString     arbitraryBuilders.string and the values it emits       *)
(*   SpecNumber     arbitraryBuilders.number and the values it emits       *)
(*   SpecOutput     outputOf and the values it emits                       *)
(*   SpecInput      inputOf and the values it emits                        *)
(*   SpecCollection arbitraryBuilders.array / .set and what they emit      *)
(*   SpecBigInt     arbitraryBuilders.bigint and the values it emits       *)
(*   SpecClosures   several closures returned by throwIfSuccessRateBelow   *)
(*   SpecEnum       arbitraryBuilders.enum and the values it emits         *)
(*                                                                         *)
(* Numbers of the number builder are counted in thousandths (0.001 is the  *)
(* offset the builder adds to an exclusive bound), so 5 is written 5000.   *)
(***************************************************************************)
EXTENDS Integers, Sequences, FiniteSets, TLC

VARIABLES
  \* --- override registry and traversal ---
  heap,        \* the Map objects: table reference -> [schema -> override entry]
  zfcs,        \* the _ZodFastCheck instances: instance -> its `overrides` reference
  derived,     \* history: for each instance, the override() call that made it
  result,      \* what the last inputOf call returned or threw
  \* --- one success-rate guard closure ---
  predicate,   \* which predicate the guard wraps
  successful,  \* closure variable `successful`
  total,       \* closure variable `total`
  isSuccess,   \* the predicate's result in the last evaluation
  outcome,     \* how the last evaluation ended: accept, reject or raise
  prevOutcome, \* how the evaluation before it ended
  \* --- string builder ---
  strChecks,   \* schema._zod.def.checks of the string schema
  strArb,      \* what arbitraryBuilders.string returned or threw
  strValue,    \* the last value drawn from strArb
  \* --- number builder ---
  numChecks,   \* schema._zod.def.checks of the number schema
  numPath,     \* the path the number builder was called with
  numArb,      \* what arbitraryBuilders.number returned or threw
  numValue,    \* the last value drawn from numArb
  \* --- outputOf ---
  outValue,    \* what the last candidate of the arbitrary of outputOf came to
  \* --- array and set builder ---
  colKind,     \* "array" or "set"
  colChecks,   \* schema._zod.def.checks of the array or set schema
  colArb,      \* what the builder returned or threw
  colValue,    \* the last value drawn from colArb
  \* --- bigint builder ---
  bigChecks,   \* schema._zod.def.checks of the bigint schema
  bigArb,      \* what arbitraryBuilders.bigint returned or threw
  bigValue,    \* the last value drawn from bigArb
  \* --- values of inputOf ---
  inValue,     \* the last value drawn from the arbitrary inputOf returned
  \* --- the closures of several success-rate guards ---
  counters,    \* the closure scopes: scope -> its `successful` and `total`
  guards,      \* the closures created: closure -> its scope, path and last outcome
  acted,       \* the closure the last step evaluated (0: none)
  \* --- enum builder ---
  enumEntries, \* schema._zod.def.entries of the enum schema
  enumArb,     \* what arbitraryBuilders.enum returned or threw
  enumValue    \* the last value drawn from enumArb

registryVars == <<heap, zfcs, derived, result>>
guardVars == <<predicate, successful, total, isSuccess, outcome, prevOutcome>>
stringVars == <<strChecks, strArb, strValue>>
numberVars == <<numChecks, numPath, numArb, numValue>>
outputVars == <<outValue>>
collectionVars == <<colKind, colChecks, colArb, colValue>>
bigintVars == <<bigChecks, bigArb, bigValue>>
inputVars == <<inValue>>
closureVars == <<counters, guards, acted>>
enumVars == <<enumEntries, enumArb, enumValue>>
vars == <<heap, zfcs, derived, result,
          predicate, successful, total, isSuccess, outcome, prevOutcome,
          strChecks, strArb, strValue, numChecks, numPath, numArb, numValue,
          outValue, colKind, colChecks, colArb, colValue,
          bigChecks, bigArb, bigValue, inValue, counters, guards, acted,
          enumEntries, enumArb, enumValue>>

None == [tag |-> "none"]

Max(a, b) == IF a >= b THEN a ELSE b
Min(a, b) == IF a <= b THEN a ELSE b
\* Math.ceil(a / b) and Math.floor(a / b) for b > 0
Ceil(a, b) == -((-a) \div b)
Floor(a, b) == a \div b

(***************************************************************************)
(* Success-Rate Guard: throwIfSuccessRateBelow                             *)
(***************************************************************************)
\* MIN_SUCCESS_RATE = 0.01, written in percent
MIN_SUCCESS_RATE_PCT == 1
MIN_RUNS == 1000
\* evaluations of one guard the model follows
MaxTotal == 1100
\* accepted values of one guard the model follows
MaxSuccessful == 12

Predicates == {"alwaysFalse", "arbitrary"}
\* what predicate(value) can return over the candidate values
PredicateResults(p) == IF p = "alwaysFalse" THEN {FALSE} ELSE BOOLEAN

\* mutants of the raise condition
ShouldThrow_noWarmup(s, t) == s * 100 < MIN_SUCCESS_RATE_PCT * t
ShouldThrow_flipped(s, t) == t > MIN_RUNS /\ s * 100 > MIN_SUCCESS_RATE_PCT * t
ShouldThrow_onceOnly(s, t) == t = MIN_RUNS + 1 /\ s * 100 < MIN_SUCCESS_RATE_PCT * t
ShouldThrow_atOnePercent(s, t) == t > MIN_RUNS /\ s * 100 <= MIN_SUCCESS_RATE_PCT * t

\* total > MIN_RUNS && successful / total < rate.  s / t < 0.01 is decided
\* exactly by the integers: s / t is the correctly rounded quotient, equal to
\* the double 0.01 when 100 s = t and further from it than one rounding
\* otherwise.
ShouldThrow(s, t) == t > MIN_RUNS /\ s * 100 < MIN_SUCCESS_RATE_PCT * t

\* one call of the closure: the counters after it and how it ends
GuardCall(s, t, r) ==
  LET t2 == t + 1
      s2 == IF r THEN s + 1 ELSE s
  IN [successful |-> s2, total |-> t2,
      outcome |-> IF ShouldThrow(s2, t2) THEN "raise"
                  ELSE IF r THEN "accept" ELSE "reject"]

GuardInit ==
  /\ predicate \in Predicates
  /\ successful = 0
  /\ total = 0
  /\ isSuccess = FALSE
  /\ outcome = "none"
  /\ prevOutcome = "none"

GuardIdle ==
  /\ predicate = "arbitrary"
  /\ successful = 0
  /\ total = 0
  /\ isSuccess = FALSE
  /\ outcome = "none"
  /\ prevOutcome = "none"

\* the filter of the arbitrary evaluates one more candidate
Evaluate ==
  /\ total < MaxTotal
  /\ \E r \in PredicateResults(predicate) :
       /\ r => successful < MaxSuccessful
       /\ LET c == GuardCall(successful, total, r)
          IN /\ successful' = c.successful
             /\ total' = c.total
             /\ outcome' = c.outcome
       /\ isSuccess' = r
  /\ prevOutcome' = outcome
  /\ UNCHANGED predicate

(***************************************************************************)
(* Checks: check._zod.def of an entry of schema._zod.def.checks            *)
(***************************************************************************)
Chk(c, v, incl, f) == [check |-> c, value |-> v, inclusive |-> incl, format |-> f]
\* schema._zod.def.checks is undefined
NoChecks == <<None>>

(***************************************************************************)
(* arbitraryBuilders.string                                                *)
(* A string value is modelled by its length.                               *)
(***************************************************************************)
MinLength(n) == Chk("min_length", n, TRUE, "")
MaxLength(n) == Chk("max_length", n, TRUE, "")
LengthEquals(n) == Chk("length_equals", n, TRUE, "")
Trim == Chk("trim", 0, TRUE, "")
\* a string_format check; v is the length of the affix of starts_with/ends_with
StringFormat(f, v) == Chk("string_format", v, TRUE, f)

\* checks a string schema of the model may carry, and how many of them
MaxStrChecks == 3
StringCheckSet ==
  {MinLength(2), MinLength(5), MaxLength(4), MaxLength(7), LengthEquals(3), Trim,
   StringFormat("email", 0), StringFormat("uuid", 0), StringFormat("cuid", 0),
   StringFormat("url", 0), StringFormat("datetime", 0),
   StringFormat("starts_with", 2), StringFormat("ends_with", 1),
   StringFormat("regex", 0)}

RECURSIVE SeqsUpTo(_, _)
SeqsUpTo(S, n) ==
  IF n = 0 THEN {<<>>}
  ELSE LET shorter == SeqsUpTo(S, n - 1)
       IN shorter \cup {Append(s, x) : s \in {t \in shorter : Len(t) = n - 1}, x \in S}

\* lengths of the strings the format generators of fast-check produce
\* fc.uuid(): 8-4-4-4-12 hexadecimal digits
UuidLength == 36
\* createCuidArb: "c" + 8 + 4 + 4 + 8
CuidLength == 25
\* longest unbounded string, address or URL the model draws
MaxDrawnLength == 12
\* fc.string() without constraints
FreeStringLengths == 0 .. MaxDrawnLength
\* fc.emailAddress(): "a@a.aa" is the shortest address
EmailLengths == 6 .. MaxDrawnLength
\* fc.webUrl(): "http://a.aa" is the shortest URL
UrlLengths == 11 .. MaxDrawnLength
\* createDatetimeStringArb: toISOString() is 24 long; precision 0 drops ".sss",
\* precision p makes the fraction p long, an offset replaces "Z" by "+hh:00"
DatetimeLengths == {20, 24, 25, 29}

Filter(p, g) == [pred |-> p, guarded |-> g]
StringArb(base, lo, hi, affix, filters) ==
  [tag |-> "arb", base |-> base, minLength |-> lo, maxLength |-> hi,
   affix |-> affix, filters |-> filters]
\* thrown by the constructors of fast-check (fc.integer, fc.array, fc.string)
\* when the minimum is above the maximum
LibraryError == [tag |-> "error", type |-> "Error", kind |-> "", path |-> ""]

\* filterArbitraryBySchema: arbitrary.filter(throwIfSuccessRateBelow(...))
filterArbitraryBySchema(arb) ==
  [arb EXCEPT !.filters = Append(@, Filter("safeParse", TRUE))]

\* the state of the loop over the checks
StringLoopInit ==
  [minLength |-> 0, maxLength |-> 0, maxSet |-> FALSE,
   hasUnsupportedCheck |-> FALSE, affix |-> 0, returned |-> None]

\* min_length and max_length assign, as in the array builder: the last check
\* of a kind wins (mutant)
StringLoopStep_assigns(st, c) ==
  IF st.returned # None THEN st
  ELSE IF c.check = "min_length"
    THEN [st EXCEPT !.minLength = c.value]
  ELSE IF c.check = "max_length"
    THEN [st EXCEPT !.maxLength = c.value,
                    !.maxSet = TRUE]
  ELSE IF c.check = "length_equals"
    THEN [st EXCEPT !.minLength = c.value, !.maxLength = c.value, !.maxSet = TRUE]
  ELSE IF c.check = "trim" THEN st
  ELSE IF c.check = "string_format"
    THEN IF c.format = "datetime"
           THEN [st EXCEPT !.returned = StringArb("datetime", 0, 0, 0, <<>>)]
         ELSE IF c.format = "email" THEN st
         ELSE IF c.format = "url"
           THEN [st EXCEPT !.returned = StringArb("url", 0, 0, 0, <<>>)]
         ELSE IF c.format = "uuid"
           THEN [st EXCEPT !.returned = StringArb("uuid", 0, 0, 0, <<>>)]
         ELSE IF c.format = "cuid"
           THEN [st EXCEPT !.returned = StringArb("cuid", 0, 0, 0, <<>>)]
         ELSE IF c.format \in {"starts_with", "ends_with"}
           THEN [st EXCEPT !.affix = @ + c.value]
         ELSE [st EXCEPT !.hasUnsupportedCheck = TRUE]
  ELSE [st EXCEPT !.hasUnsupportedCheck = TRUE]

\* one iteration of `for (const check of checks)`
StringLoopStep(st, c) ==
  IF st.returned # None THEN st
  ELSE IF c.check = "min_length"
    THEN [st EXCEPT !.minLength = Max(@, c.value)]
  ELSE IF c.check = "max_length"
    THEN [st EXCEPT !.maxLength = IF st.maxSet THEN Min(@, c.value) ELSE c.value,
                    !.maxSet = TRUE]
  ELSE IF c.check = "length_equals"
    THEN [st EXCEPT !.minLength = c.value, !.maxLength = c.value, !.maxSet = TRUE]
  ELSE IF c.check = "trim" THEN st
  ELSE IF c.check = "string_format"
    THEN IF c.format = "datetime"
           THEN [st EXCEPT !.returned = StringArb("datetime", 0, 0, 0, <<>>)]
         ELSE IF c.format = "email" THEN st
         ELSE IF c.format = "url"
           THEN [st EXCEPT !.returned = StringArb("url", 0, 0, 0, <<>>)]
         ELSE IF c.format = "uuid"
           THEN [st EXCEPT !.returned = StringArb("uuid", 0, 0, 0, <<>>)]
         ELSE IF c.format = "cuid"
           THEN [st EXCEPT !.returned = StringArb("cuid", 0, 0, 0, <<>>)]
         ELSE IF c.format \in {"starts_with", "ends_with"}
           THEN [st EXCEPT !.affix = @ + c.value]
         ELSE [st EXCEPT !.hasUnsupportedCheck = TRUE]
  ELSE [st EXCEPT !.hasUnsupportedCheck = TRUE]

StringLoop(checks) ==
  LET run[i \in 0 .. Len(checks)] ==
        IF i = 0 THEN StringLoopInit ELSE StringLoopStep(run[i - 1], checks[i])
  IN run[Len(checks)]

hasEmailFormat(checks) ==
  \E i \in 1 .. Len(checks) :
    checks[i].check = "string_format" /\ checks[i].format = "email"

\* fc.emailAddress().filter(regex).filter(length): two plain filters
EmailBranch(st) ==
  StringArb("email", st.minLength, st.maxLength, 0,
            <<Filter("ZOD_EMAIL_REGEX", FALSE),
              Filter(IF st.maxSet THEN "minMaxLength" ELSE "minLength", FALSE)>>)

\* arbitraryBuilders.string(schema, path)
stringBuilder(checks) ==
  IF checks = NoChecks
    THEN StringArb("freeString", 0, 0, 0, <<>>)
  ELSE
    LET st == StringLoop(checks) IN
    IF st.returned # None THEN st.returned
    ELSE IF hasEmailFormat(checks) THEN EmailBranch(st)
    ELSE
      LET maxLength == IF st.maxSet THEN st.maxLength ELSE 2 * st.minLength + 10
          unfiltered == StringArb("string", st.minLength, maxLength, st.affix, <<>>)
      IN IF st.minLength > maxLength THEN LibraryError
         ELSE IF st.hasUnsupportedCheck THEN filterArbitraryBySchema(unfiltered)
         ELSE unfiltered

\* the length checks of zod on a string of length n (schema.safeParse)
LengthChecksPass(checks, n) ==
  \A i \in 1 .. Len(checks) :
    /\ checks[i].check = "min_length" => n >= checks[i].value
    /\ checks[i].check = "max_length" => n <= checks[i].value
    /\ checks[i].check = "length_equals" => n = checks[i].value

\* lengths of the candidates the base arbitrary generates, mappings applied
CandidateLengths(arb) ==
  IF arb.base = "freeString" THEN FreeStringLengths
  ELSE IF arb.base = "string" THEN {n + arb.affix : n \in arb.minLength .. arb.maxLength}
  ELSE IF arb.base = "email" THEN EmailLengths
  ELSE IF arb.base = "url" THEN UrlLengths
  ELSE IF arb.base = "uuid" THEN {UuidLength}
  ELSE IF arb.base = "cuid" THEN {CuidLength}
  ELSE DatetimeLengths

\* whether a candidate of length n, which passes the checks other than the
\* length checks iff `other`, passes filter f
FilterPasses(f, arb, checks, n, other) ==
  IF f.pred = "safeParse" THEN other /\ LengthChecksPass(checks, n)
  ELSE IF f.pred = "ZOD_EMAIL_REGEX" THEN other
  ELSE IF f.pred = "minMaxLength" THEN n >= arb.minLength /\ n <= arb.maxLength
  ELSE n >= arb.minLength

StringInit ==
  /\ strChecks \in {NoChecks} \cup SeqsUpTo(StringCheckSet, MaxStrChecks)
  /\ strArb = None
  /\ strValue = None

StringIdle ==
  /\ strChecks = NoChecks
  /\ strArb = None
  /\ strValue = None

\* zfc.inputOf(schema) on the string schema
CompileString ==
  /\ strArb = None
  /\ strArb' = stringBuilder(strChecks)
  /\ UNCHANGED <<strChecks, strValue>>

\* one value is drawn: a candidate that every filter lets through
DrawString ==
  /\ strArb.tag = "arb"
  /\ \E n \in CandidateLengths(strArb), other \in BOOLEAN :
       /\ \A i \in 1 .. Len(strArb.filters) :
            FilterPasses(strArb.filters[i], strArb, strChecks, n, other)
       /\ strValue' = [tag |-> "value", len |-> n]
  /\ UNCHANGED <<strChecks, strArb>>

(***************************************************************************)
(* arbitraryBuilders.number                                                *)
(* Values and bounds are counted in thousandths.  TLC's integers have 32   *)
(* bits, so the two magnitudes of the double format that the builder       *)
(* depends on are scaled down, keeping their order:                        *)
(*   1e6 < EPS_ABSORBED_FROM < MAX_SAFE_INTEGER                            *)
(***************************************************************************)
\* let min = -1e6
DEFAULT_MIN == -1000000000
\* the default maximum of the double branch, 1e6
DEFAULT_MAX == 1000000000
\* Number.MAX_SAFE_INTEGER (2^53 - 1), here 2 000 000
MAX_SAFE_INTEGER == 2000000000
\* the magnitude (2^44) from which a double is too coarse to hold v + 0.001,
\* so that v + 0.001 and v - 0.001 evaluate to v; here 1 500 000
EPS_ABSORBED_FROM == 1500000000
\* 1 in thousandths
Unit == 1000
\* the largest int32 (2^31 - 1) and uint32 (2^32 - 1) of the formats "int32"
\* and "uint32", between 1e6 and the magnitude of EPS_ABSORBED_FROM; here
\* 1 200 000 and 1 300 000
INT32_MAX == 1200000000
UINT32_MAX == 1300000000

GreaterThan(v, incl) == Chk("greater_than", v, incl, "")
LessThan(v, incl) == Chk("less_than", v, incl, "")
NumberFormat(f) == Chk("number_format", 0, TRUE, f)
\* multiple_of carries its factor as a whole number
MultipleOf(k) == Chk("multiple_of", k, TRUE, "")
\* a refinement; `format` names its predicate
Custom(fn) == Chk("custom", 0, TRUE, fn)

Abs(v) == IF v < 0 THEN -v ELSE v
\* gtDef.value + 0.001 and ltDef.value - 0.001 in double arithmetic
PlusEps(v) == IF Abs(v) >= EPS_ABSORBED_FROM THEN v ELSE v + 1
MinusEps(v) == IF Abs(v) >= EPS_ABSORBED_FROM THEN v ELSE v - 1

\* the refinement functions of the model, applied to a value in thousandths
Refinement(fn, v) ==
  IF fn = "divisibleBy3" THEN v % (3 * Unit) = 0
  ELSE IF fn = "equals0" THEN v = 0
  ELSE IF fn = "equals42" THEN v = 42 * Unit
  ELSE FALSE

NumberArb(base, lo, hi, factor, filters) ==
  [tag |-> "arb", base |-> base, min |-> lo, max |-> hi, factor |-> factor,
   filters |-> filters]
GenerationError(path) ==
  [tag |-> "error", type |-> "ZodFastCheckGenerationError", kind |-> "", path |-> path]

NumberLoopInit ==
  [min |-> DEFAULT_MIN, max |-> 0, maxSet |-> FALSE, hasExplicitMax |-> FALSE,
   isFinite |-> FALSE, multipleOf |-> 1, multipleOfSet |-> FALSE,
   hasSafeIntFormat |-> FALSE, customChecks |-> <<>>]

\* each bound check assigns its value: the last check of a kind wins (mutant)
NumberLoopStep_lastWins(st, c) ==
  IF c.check = "greater_than"
    THEN [st EXCEPT !.min = IF c.inclusive THEN c.value ELSE PlusEps(c.value)]
  ELSE IF c.check = "less_than"
    THEN [st EXCEPT !.isFinite = TRUE, !.hasExplicitMax = TRUE,
                    !.max = IF c.inclusive THEN c.value ELSE MinusEps(c.value),
                    !.maxSet = TRUE]
  ELSE IF c.check = "number_format"
    THEN IF c.format \in {"int32", "uint32", "safeint"}
           THEN [st EXCEPT !.multipleOfSet = TRUE,
                           !.hasSafeIntFormat = @ \/ c.format = "safeint"]
           ELSE st
  ELSE IF c.check = "multiple_of"
    THEN [st EXCEPT !.multipleOf = @ * c.value, !.multipleOfSet = TRUE]
  ELSE IF c.check = "custom"
    THEN [st EXCEPT !.customChecks = Append(@, c)]
  ELSE st

\* one iteration of the first pass over the checks
NumberLoopStep(st, c) ==
  IF c.check = "greater_than"
    THEN [st EXCEPT !.min = Max(@, IF c.inclusive THEN c.value ELSE PlusEps(c.value))]
  ELSE IF c.check = "less_than"
    THEN LET ltValue == IF c.inclusive THEN c.value ELSE MinusEps(c.value)
         IN [st EXCEPT !.isFinite = TRUE, !.hasExplicitMax = TRUE,
                       !.max = IF st.maxSet THEN Min(@, ltValue) ELSE ltValue,
                       !.maxSet = TRUE]
  ELSE IF c.check = "number_format"
    THEN IF c.format \in {"int32", "uint32", "safeint"}
           THEN [st EXCEPT !.multipleOfSet = TRUE,
                           !.hasSafeIntFormat = @ \/ c.format = "safeint"]
           ELSE st
  ELSE IF c.check = "multiple_of"
    THEN [st EXCEPT !.multipleOf = @ * c.value, !.multipleOfSet = TRUE]
  ELSE IF c.check = "custom"
    THEN [st EXCEPT !.customChecks = Append(@, c)]
  ELSE st

NumberLoop(checks) ==
  LET run[i \in 0 .. Len(checks)] ==
        IF i = 0 THEN NumberLoopInit ELSE NumberLoopStep(run[i - 1], checks[i])
  IN run[Len(checks)]

\* the clamp replaces the upper bound the user declared (mutant)
SafeIntClamp_overwritesMax(st) ==
  IF st.hasSafeIntFormat
    THEN [st EXCEPT !.min = Max(@, -MAX_SAFE_INTEGER),
                    !.max = MAX_SAFE_INTEGER,
                    !.maxSet = TRUE]
    ELSE st

\* if (hasSafeIntFormat) { min = Math.max(...); max = ... }
SafeIntClamp(st) ==
  IF st.hasSafeIntFormat
    THEN [st EXCEPT !.min = Max(@, -MAX_SAFE_INTEGER),
                    !.max = IF st.maxSet THEN Min(@, MAX_SAFE_INTEGER)
                            ELSE MAX_SAFE_INTEGER,
                    !.maxSet = TRUE]
    ELSE st

\* the bounds of fc.integer on the integer path, in whole numbers
IntegerMin(st) == Ceil(st.min, st.multipleOf * Unit)
IntegerMax(st) ==
  LET finalMax == IF st.maxSet THEN st.max ELSE MAX_SAFE_INTEGER
      integerMax == Floor(finalMax, st.multipleOf * Unit)
  IN IF st.hasSafeIntFormat
       THEN Min(integerMax, Floor(MAX_SAFE_INTEGER, st.multipleOf * Unit))
       ELSE integerMax

\* tryGenerateSmartlyForRefinement(check, min, max)
ModuloTestValues == {0, 3, 6, 9, 12, -3, -6}
EqualityTestValues == <<-42, 0, 42, 100, -100>>
\* the lower end of the multiples is rounded down instead of up (mutant)
tryGenerateSmartlyForRefinement_floorMin(fn, min, max) ==
  IF Refinement(fn, 3 * Unit) /\ ~Refinement(fn, 1 * Unit)
       /\ Floor(min, 3 * Unit) <= Floor(max, 3 * Unit)
    THEN NumberArb("integer", Floor(min, 3 * Unit), Floor(max, 3 * Unit), 3, <<>>)
  ELSE None
tryGenerateSmartlyForRefinement(fn, min, max) ==
  LET moduloDetected ==
        /\ \E t \in ModuloTestValues : Refinement(fn, t * Unit)
        /\ ~Refinement(fn, 1 * Unit)
        /\ ~Refinement(fn, 2 * Unit)
        /\ ~Refinement(fn, 4 * Unit)
      intMin == Ceil(min, 3 * Unit)
      intMax == Floor(max, 3 * Unit)
      isEquality(t) ==
        /\ Refinement(fn, t * Unit)
        /\ ~Refinement(fn, (t - 1) * Unit)
        /\ ~Refinement(fn, (t + 1) * Unit)
        /\ t * Unit >= min
        /\ t * Unit <= max
      hits == {i \in 1 .. Len(EqualityTestValues) : isEquality(EqualityTestValues[i])}
  IN IF moduloDetected /\ intMin <= intMax
       THEN NumberArb("integer", intMin, intMax, 3, <<>>)
     ELSE IF hits # {}
       THEN LET first == CHOOSE i \in hits : \A j \in hits : i <= j
            IN NumberArb("integer", EqualityTestValues[first],
                         EqualityTestValues[first], 1, <<>>)
     ELSE None

\* the base arbitrary of the double branch
DoubleArb(st) ==
  LET doubleMax == IF st.maxSet THEN Min(st.max, MAX_SAFE_INTEGER) ELSE DEFAULT_MAX
      doubleMin == Max(st.min, DEFAULT_MIN)
  IN IF doubleMin > doubleMax THEN LibraryError
     ELSE NumberArb("double", doubleMin, doubleMax, 1, <<Filter("notTiny", FALSE)>>)

\* if (customChecks.length > 0) { ... }
WithCustomChecks(st, arbitrary) ==
  LET finalMax == IF st.maxSet THEN st.max
                  ELSE IF st.hasSafeIntFormat THEN MAX_SAFE_INTEGER ELSE DEFAULT_MAX
      smart == {i \in 1 .. Len(st.customChecks) :
                  tryGenerateSmartlyForRefinement(st.customChecks[i].format,
                                                  st.min, finalMax) # None}
  IN IF smart # {}
       THEN LET first == CHOOSE i \in smart : \A j \in smart : i <= j
            IN tryGenerateSmartlyForRefinement(st.customChecks[first].format,
                                               st.min, finalMax)
       ELSE filterArbitraryBySchema(arbitrary)

\* the number builder without the comparison of the integer bounds: the
\* bounds go to fc.integer, which rejects an inverted pair itself
numberBuilder_uncheckedBounds(checks, path) ==
  IF checks = NoChecks
    THEN NumberArb("double", DEFAULT_MIN, DEFAULT_MAX, 1, <<Filter("notTiny", FALSE)>>)
  ELSE
    LET st == SafeIntClamp(NumberLoop(checks))
        arbitrary ==
          IF st.multipleOfSet
            THEN IF IntegerMin(st) > IntegerMax(st) THEN LibraryError
                 ELSE NumberArb("integer", IntegerMin(st), IntegerMax(st),
                                st.multipleOf, <<>>)
            ELSE DoubleArb(st)
    IN IF arbitrary.tag = "error" THEN arbitrary
       ELSE IF Len(st.customChecks) > 0 THEN WithCustomChecks(st, arbitrary)
       ELSE arbitrary

\* arbitraryBuilders.number(schema, path)
numberBuilder(checks, path) ==
  IF checks = NoChecks
    THEN NumberArb("double", DEFAULT_MIN, DEFAULT_MAX, 1, <<Filter("notTiny", FALSE)>>)
  ELSE
    LET st == SafeIntClamp(NumberLoop(checks))
        arbitrary ==
          IF st.multipleOfSet
            THEN IF IntegerMin(st) > IntegerMax(st) THEN GenerationError(path)
                 ELSE NumberArb("integer", IntegerMin(st), IntegerMax(st),
                                st.multipleOf, <<>>)
            ELSE DoubleArb(st)
    IN IF arbitrary.tag = "error" THEN arbitrary
       ELSE IF Len(st.customChecks) > 0 THEN WithCustomChecks(st, arbitrary)
       ELSE arbitrary

\* checks a number schema of the model may carry, and how many of them
MaxNumChecks == 3
\* 1 600 000 is a bound from which 0.001 is absorbed, 2 100 000 one beyond the
\* safe integers; between 5 and 6 (exclusive) lies no whole number
NumberCheckSet ==
  {GreaterThan(5 * Unit, TRUE), GreaterThan(5 * Unit, FALSE),
   GreaterThan(1600000 * Unit, FALSE), GreaterThan(2100000 * Unit, TRUE),
   LessThan(10 * Unit, TRUE), LessThan(10 * Unit, FALSE), LessThan(3 * Unit, TRUE),
   LessThan(6 * Unit, FALSE),
   LessThan(2100000 * Unit, TRUE),
   NumberFormat("safeint"), NumberFormat("int32"), NumberFormat("uint32"),
   MultipleOf(2), MultipleOf(3),
   Custom("divisibleBy3"), Custom("equals0"), Custom("alwaysFalse")}

\* schema.safeParse(v).success for a number schema with these checks
SafeParseNumber(checks, v) ==
  \A i \in 1 .. Len(checks) :
    LET c == checks[i] IN
    /\ c.check = "greater_than" => IF c.inclusive THEN v >= c.value ELSE v > c.value
    /\ c.check = "less_than" => IF c.inclusive THEN v <= c.value ELSE v < c.value
    /\ c.check = "multiple_of" => v % (c.value * Unit) = 0
    /\ c.check = "number_format" =>
         /\ v % Unit = 0
         /\ IF c.format = "int32" THEN -INT32_MAX - Unit <= v /\ v <= INT32_MAX
            ELSE IF c.format = "uint32" THEN 0 <= v /\ v <= UINT32_MAX
            ELSE Abs(v) <= MAX_SAFE_INTEGER
    /\ c.check = "custom" => Refinement(c.format, v)

\* values fc.integer({min: lo, max: hi}) is followed on: the ends of the range,
\* their neighbours and the values around zero
SampleInts(lo, hi) == {x \in {lo, lo + 1, hi - 1, hi, -1, 0, 1} : lo <= x /\ x <= hi}
\* values fc.double({min: lo, max: hi}) is followed on, in thousandths
SampleDoubles(lo, hi) ==
  {x \in {lo, lo + 1, hi - 1, hi, -500, 0, 500, 6 * Unit} : lo <= x /\ x <= hi}

\* the candidates of a number arbitrary, its map (x => x * factor) applied
NumberCandidates(arb) ==
  IF arb.base = "integer"
    THEN {x * arb.factor * Unit : x \in SampleInts(arb.min, arb.max)}
    ELSE SampleDoubles(arb.min, arb.max)

NumberFilterPasses(f, checks, v) ==
  IF f.pred = "safeParse" THEN SafeParseNumber(checks, v) ELSE TRUE

NumberInit ==
  /\ numChecks \in {NoChecks} \cup SeqsUpTo(NumberCheckSet, MaxNumChecks)
  /\ numPath = ""
  /\ numArb = None
  /\ numValue = None

NumberIdle ==
  /\ numChecks = NoChecks
  /\ numPath = ""
  /\ numArb = None
  /\ numValue = None

\* the paths the number schema is reached by: compiled itself, or as the
\* property "age" of a compiled object
NumberPaths == {"", ".age"}

\* zfc.inputOf on the number schema or on an object that holds it: the
\* builder is called with the path of the number schema
CompileNumber ==
  /\ numArb = None
  /\ \E path \in NumberPaths :
       /\ numPath' = path
       /\ numArb' = numberBuilder(numChecks, path)
  /\ UNCHANGED <<numChecks, numValue>>

\* one value is drawn: a candidate that every filter lets through
DrawNumber ==
  /\ numArb.tag = "arb"
  /\ \E v \in NumberCandidates(numArb) :
       /\ \A i \in 1 .. Len(numArb.filters) :
            NumberFilterPasses(numArb.filters[i], numChecks, v)
       /\ numValue' = [tag |-> "value", v |-> v]
  /\ UNCHANGED <<numChecks, numPath, numArb>>

(***************************************************************************)
(* Schema nodes.  A node is known by its identity (its index in Schemas);  *)
(* `type` is schema._zod.def.type, `ctor` is schema.constructor.name,      *)
(* `children` are the child schemas its builder recurses into, each with   *)
(* the property name, tuple index or role it is reached by.                *)
(***************************************************************************)
Node(type, ctor, checks, children) ==
  [type |-> type, ctor |-> ctor, checks |-> checks, children |-> children]
Child(key, n) == [key |-> key, node |-> n]
\* z.literal(value): def.values
LiteralNode(value) ==
  [type |-> "literal", ctor |-> "ZodLiteral", checks |-> <<>>, children |-> <<>>,
   values |-> <<value>>]

Schemas ==
  << Node("object", "ZodObject", <<>>, <<Child("name", 2), Child("tags", 4)>>),
     Node("string", "ZodString", <<MinLength(2)>>, <<>>),
     Node("string", "ZodString", <<MinLength(2)>>, <<>>),
     Node("array", "ZodArray", <<>>, <<Child("element", 5)>>),
     Node("lazy", "ZodLazy", <<>>, <<>>),
     Node("tuple", "ZodTuple", <<>>, <<Child("0", 7), Child("1", 8)>>),
     Node("number", "ZodNumber",
          <<NumberFormat("safeint"), GreaterThan(5 * Unit, TRUE),
            LessThan(3 * Unit, TRUE)>>, <<>>),
     Node("never", "ZodNever", <<>>, <<>>),
     Node("map", "ZodMap", <<>>, <<Child("key", 10), Child("value", 11)>>),
     Node("string", "ZodString", <<>>, <<>>),
     Node("function", "ZodFunction", <<>>, <<Child("output", 12)>>),
     Node("promise", "ZodPromise", <<>>, <<Child("innerType", 13)>>),
     Node("intersection", "ZodIntersection", <<>>, <<>>),
     Node("optional", "ZodOptional", <<>>, <<Child("innerType", 15)>>),
     Node("number", "ZodNumber", <<GreaterThan(0, TRUE)>>, <<>>),
     Node("record", "ZodRecord", <<>>, <<Child("key", 17), Child("value", 18)>>),
     Node("string", "ZodString", <<MinLength(5), MaxLength(4)>>, <<>>),
     Node("lazy", "ZodLazy", <<>>, <<>>),
     Node("default", "ZodDefault", <<>>, <<Child("innerType", 20)>>),
     Node("string", "ZodString",
          <<MaxLength(4), StringFormat("starts_with", 2)>>, <<>>),
     Node("discriminatedUnion", "ZodDiscriminatedUnion", <<>>,
          <<Child("0", 22), Child("1", 25)>>),
     Node("object", "ZodObject", <<>>, <<Child("type", 23), Child("a", 24)>>),
     LiteralNode("a"),
     Node("string", "ZodString", <<>>, <<>>),
     Node("object", "ZodObject", <<>>, <<Child("type", 26), Child("b", 27)>>),
     LiteralNode("b"),
     Node("number", "ZodNumber", <<GreaterThan(0, TRUE)>>, <<>>) >>

Nodes == DOMAIN Schemas

\* the keys of arbitraryBuilders
Builders ==
  {"string", "number", "bigint", "boolean", "date", "undefined", "null", "array",
   "object", "union", "tuple", "record", "map", "set", "function", "literal",
   "enum", "promise", "any", "unknown", "never", "void", "optional", "nullable",
   "default", "transform", "discriminatedUnion", "nan", "readonly", "catch",
   "pipe", "symbol"}

isFirstPartyType(n) == Schemas[n].type \in Builders

\* unsupported(schemaTypeName, path): the error's message names
\* schemaTypeName and `path || "."`
unsupported(schemaTypeName, path) ==
  [tag |-> "error", type |-> "ZodFastCheckUnsupportedSchemaError",
   kind |-> schemaTypeName, path |-> IF path = "" THEN "." ELSE path]

\* constructorName.startsWith('Zod') ? constructorName.slice(3) : constructorName
ConstructorTypeName(ctor) ==
  IF Len(ctor) >= 3 /\ SubSeq(ctor, 1, 3) = "Zod" THEN SubSeq(ctor, 4, Len(ctor))
  ELSE ctor

\* the promise builder forgets its path segment (mutant)
childPath_promiseDropped(type, key, path) ==
  IF type = "array" THEN path \o "[*]"
  ELSE IF type = "object" THEN path \o "." \o key
  ELSE IF type = "tuple" THEN path \o "[" \o key \o "]"
  ELSE IF type = "record" THEN IF key = "key" THEN path ELSE path \o "[*]"
  ELSE IF type = "map" THEN path \o ".(" \o key \o ")"
  ELSE IF type = "set" THEN path \o ".(value)"
  ELSE IF type = "function" THEN path \o ".(return type)"
  ELSE path

\* the path each builder hands to recurse for a child
childPath(type, key, path) ==
  IF type = "array" THEN path \o "[*]"
  ELSE IF type = "object" THEN path \o "." \o key
  ELSE IF type = "tuple" THEN path \o "[" \o key \o "]"
  ELSE IF type = "record" THEN IF key = "key" THEN path ELSE path \o "[*]"
  ELSE IF type = "map" THEN path \o ".(" \o key \o ")"
  ELSE IF type = "set" THEN path \o ".(value)"
  ELSE IF type = "function" THEN path \o ".(return type)"
  ELSE IF type = "promise" THEN path \o ".(resolved type)"
  ELSE path

\* the bounds the array and the set builder read from the checks: each check
\* assigns its bound
CollectionLoop(checks) ==
  LET step(st, c) ==
        IF c.check \in {"min_length", "min_size"} THEN [st EXCEPT !.minLength = c.value]
        ELSE IF c.check \in {"max_length", "max_size"}
          THEN [st EXCEPT !.maxLength = c.value, !.maxSet = TRUE]
        ELSE IF c.check \in {"length_equals", "size_equals"}
          THEN [st EXCEPT !.minLength = c.value, !.maxLength = c.value, !.maxSet = TRUE]
        ELSE st
      run[i \in 0 .. Len(checks)] ==
        IF i = 0 THEN [minLength |-> 0, maxLength |-> 0, maxSet |-> FALSE]
        ELSE step(run[i - 1], checks[i])
  IN run[Len(checks)]

(***************************************************************************)
(* The override registry and the traversal: class _ZodFastCheck            *)
(***************************************************************************)
\* instances of _ZodFastCheck the model creates
MaxInstances == 3
\* what override() is given: two fixed arbitraries and a factory
OverrideArbitraries ==
  {[tag |-> "arbitrary", id |-> "g1"], [tag |-> "arbitrary", id |-> "g2"],
   [tag |-> "factory", id |-> "f"]}
\* the schemas override() is called with
OverrideTargets == {2, 4, 5, 7}

EmptyTable == [n \in Nodes |-> None]
\* this.overrides of instance c
Table(c) == heap[zfcs[c]]
\* the second argument override() is called with on instance c: a second
\* fixed generator is registered only for a schema c already holds an entry for
OverrideArguments(c, schema) ==
  IF Table(c)[schema] = None
    THEN OverrideArbitraries \ {[tag |-> "arbitrary", id |-> "g2"]}
    ELSE OverrideArbitraries

\* the arbitrary a factory returns when called with instance c, and a fixed one
FactoryResult(id, c) == [tag |-> "arb", base |-> "factoryResult", id |-> id, zfc |-> c]
FixedArbitrary(id) == [tag |-> "arb", base |-> "override", id |-> id, zfc |-> 0]

SameStructure(n, m) == Schemas[n] = Schemas[m]

\* a lookup by structural equality instead of identity (mutant)
findOverride_structural(c, schema) ==
  LET alike == {k \in Nodes : SameStructure(k, schema) /\ Table(c)[k] # None}
  IN IF alike # {}
       THEN LET override == Table(c)[CHOOSE k \in alike : TRUE]
            IN IF override.tag = "factory" THEN FactoryResult(override.id, c)
               ELSE FixedArbitrary(override.id)
       ELSE None

\* a factory is called with the instance this one was derived from (mutant)
findOverride_parentInstance(c, schema) ==
  LET override == Table(c)[schema]
      parent == IF derived[c].from = 0 THEN c ELSE derived[c].from
  IN IF override # None
       THEN IF override.tag = "factory" THEN FactoryResult(override.id, parent)
            ELSE FixedArbitrary(override.id)
       ELSE None

\* findOverride(schema): this.overrides.get(schema), a factory called with this
findOverride(c, schema) ==
  LET override == Table(c)[schema]
  IN IF override # None
       THEN IF override.tag = "factory" THEN FactoryResult(override.id, c)
            ELSE FixedArbitrary(override.id)
       ELSE None

RECURSIVE inputWithPath(_, _, _)

\* the discriminated-union builder looks every key up as the first option
\* (mutant)
Builder_firstOption(c, n, path) ==
  LET s == Schemas[n]
      kids == s.children
      arbs == [i \in 1 .. Len(kids) |->
                 inputWithPath(c, kids[IF s.type = "discriminatedUnion" THEN 1 ELSE i].node,
                               childPath(s.type, kids[i].key, path))]
      failed == {i \in 1 .. Len(kids) : arbs[i].tag = "error"}
      bounds == CollectionLoop(s.checks)
  IN IF s.type = "string" THEN stringBuilder(s.checks)
     ELSE IF s.type = "number" THEN numberBuilder(s.checks, path)
     ELSE IF s.type = "never" THEN unsupported("Never", path)
     ELSE IF s.type = "literal"
       THEN [tag |-> "arb", base |-> "literal", parts |-> <<>>, value |-> s.values[1]]
     ELSE IF failed # {} THEN arbs[CHOOSE i \in failed : \A j \in failed : i <= j]
     ELSE IF s.type \in {"array", "set"} /\ bounds.maxSet
             /\ bounds.minLength > bounds.maxLength THEN LibraryError
     ELSE [tag |-> "arb", base |-> s.type, parts |-> arbs]

\* arbitraryBuilders[typeName](schema, path, recurse)
Builder(c, n, path) ==
  LET s == Schemas[n]
      kids == s.children
      arbs == [i \in 1 .. Len(kids) |->
                 inputWithPath(c, kids[i].node, childPath(s.type, kids[i].key, path))]
      failed == {i \in 1 .. Len(kids) : arbs[i].tag = "error"}
      bounds == CollectionLoop(s.checks)
  IN IF s.type = "string" THEN stringBuilder(s.checks)
     ELSE IF s.type = "number" THEN numberBuilder(s.checks, path)
     ELSE IF s.type = "never" THEN unsupported("Never", path)
     ELSE IF s.type = "literal"
       THEN [tag |-> "arb", base |-> "literal", parts |-> <<>>, value |-> s.values[1]]
     ELSE IF failed # {} THEN arbs[CHOOSE i \in failed : \A j \in failed : i <= j]
     ELSE IF s.type \in {"array", "set"} /\ bounds.maxSet
             /\ bounds.minLength > bounds.maxLength THEN LibraryError
     ELSE [tag |-> "arb", base |-> s.type, parts |-> arbs]

\* the kind is dispatched on before the overrides are consulted (mutant)
inputWithPath_dispatchFirst(c, schema, path) ==
  IF isFirstPartyType(schema) THEN Builder(c, schema, path)
  ELSE IF findOverride(c, schema) # None THEN findOverride(c, schema)
  ELSE unsupported(ConstructorTypeName(Schemas[schema].ctor), path)

\* inputWithPath(schema, path)
inputWithPath(c, schema, path) ==
  LET override == findOverride(c, schema)
  IN IF override # None THEN override
     ELSE IF isFirstPartyType(schema) THEN Builder(c, schema, path)
     ELSE unsupported(ConstructorTypeName(Schemas[schema].ctor), path)

\* override() stores into the Map of the instance it was called on (mutant)
clone_shared(h, ref) == [heap |-> h, ref |-> ref]

\* clone(): a new instance with a new Map holding the same entries
clone(h, ref) == [heap |-> Append(h, h[ref]), ref |-> Len(h) + 1]

RegistryInit ==
  /\ heap = <<EmptyTable>>
  /\ zfcs = <<1>>
  /\ derived = <<[from |-> 0, schema |-> 0, arbitrary |-> None]>>
  /\ result = None

\* override() leaves an entry the clone already holds for the schema (mutant)
Override_keepsFirst ==
  /\ Len(zfcs) < MaxInstances
  /\ \E c \in DOMAIN zfcs, schema \in OverrideTargets :
     \E arbitrary \in OverrideArguments(c, schema) :
       LET withOverride == clone(heap, zfcs[c])
       IN /\ heap' = IF withOverride.heap[withOverride.ref][schema] # None
                       THEN withOverride.heap
                       ELSE [withOverride.heap EXCEPT
                               ![withOverride.ref][schema] = arbitrary]
          /\ zfcs' = Append(zfcs, withOverride.ref)
          /\ derived' = Append(derived, [from |-> c, schema |-> schema,
                                         arbitrary |-> arbitrary])
  /\ UNCHANGED result

\* zfc.override(schema, arbitrary) on instance c
Override ==
  /\ Len(zfcs) < MaxInstances
  /\ \E c \in DOMAIN zfcs, schema \in OverrideTargets :
     \E arbitrary \in OverrideArguments(c, schema) :
       LET withOverride == clone(heap, zfcs[c])
       IN /\ heap' = [withOverride.heap EXCEPT ![withOverride.ref][schema] = arbitrary]
          /\ zfcs' = Append(zfcs, withOverride.ref)
          /\ derived' = Append(derived, [from |-> c, schema |-> schema,
                                         arbitrary |-> arbitrary])
  /\ UNCHANGED result

\* zfc.inputOf(schema) on instance c; a behaviour of the model ends with it
InputOf ==
  /\ result = None
  /\ \E c \in DOMAIN zfcs, schema \in Nodes :
       result' = [tag |-> "call", zfc |-> c, schema |-> schema,
                  value |-> inputWithPath(c, schema, "")]
  /\ UNCHANGED <<heap, zfcs, derived>>

(***************************************************************************)
(* Specifications                                                          *)
(***************************************************************************)
(***************************************************************************)
(* outputOf                                                                *)
(***************************************************************************)
SCALAR_TYPES ==
  {"string", "number", "int", "bigint", "boolean", "date", "undefined", "null",
   "literal", "enum", "any", "unknown", "void"}

\* the scalar shortcut is missing (mutant)
outputOf_noShortcut(c, schema) ==
  LET inputArbitrary == inputWithPath(c, schema, "")
  IN IF inputArbitrary.tag = "error" THEN inputArbitrary
     ELSE [tag |-> "arb", base |-> "parsed", schema |-> schema,
           input |-> inputArbitrary, filters |-> <<Filter("success", TRUE)>>]

\* the filter between the two maps is missing (mutant)
outputOf_unfiltered(c, schema) ==
  LET inputArbitrary == inputWithPath(c, schema, "")
  IN IF inputArbitrary.tag = "error" THEN inputArbitrary
     ELSE IF isFirstPartyType(schema) /\ Schemas[schema].type \in SCALAR_TYPES
       THEN inputArbitrary
     ELSE [tag |-> "arb", base |-> "parsed", schema |-> schema,
           input |-> inputArbitrary, filters |-> <<>>]

\* outputOf(schema) on instance c: the input arbitrary itself for a scalar
\* kind, else input.map(safeParse).filter(guard(success)).map(data)
outputOf(c, schema) ==
  LET inputArbitrary == inputWithPath(c, schema, "")
  IN IF inputArbitrary.tag = "error" THEN inputArbitrary
     ELSE IF isFirstPartyType(schema) /\ Schemas[schema].type \in SCALAR_TYPES
       THEN inputArbitrary
     ELSE [tag |-> "arb", base |-> "parsed", schema |-> schema,
           input |-> inputArbitrary, filters |-> <<Filter("success", TRUE)>>]

\* values: undefined, a string (by its length), a number (in thousandths), a
\* literal, an object (a function from its property names)
Undefined == [kind |-> "undefined"]
StringValue(n) == [kind |-> "string", len |-> n]
NumberValue(v) == [kind |-> "number", v |-> v]
LiteralValue(x) == [kind |-> "literal", value |-> x]

\* the values the input arbitrary compiled for node n emits; followed for
\* strings, numbers, literals, objects (fc.record), unions (fc.oneof) and the
\* optional and default wrappers
RECURSIVE InputValues(_, _)
InputValues(arb, n) ==
  LET s == Schemas[n]
  IN IF arb.base \in {"override", "factoryResult"} THEN {}
     ELSE IF s.type = "string"
       THEN {StringValue(l) : l \in
               {k \in CandidateLengths(arb) :
                  \A i \in 1 .. Len(arb.filters) :
                    FilterPasses(arb.filters[i], arb, s.checks, k, TRUE)}}
     ELSE IF s.type = "number"
       THEN {NumberValue(v) : v \in
               {x \in NumberCandidates(arb) :
                  \A i \in 1 .. Len(arb.filters) :
                    NumberFilterPasses(arb.filters[i], s.checks, x)}}
     ELSE IF s.type \in {"optional", "default"}
       THEN {Undefined} \cup InputValues(arb.parts[1], s.children[1].node)
     ELSE IF s.type = "literal" THEN {LiteralValue(arb.value)}
     ELSE IF s.type \in {"union", "discriminatedUnion"}
       THEN UNION {InputValues(arb.parts[i], s.children[i].node) :
                     i \in 1 .. Len(s.children)}
     ELSE IF s.type = "object"
       THEN LET kids == s.children
                of(i) == InputValues(arb.parts[i], kids[i].node)
                keys == {kids[i].key : i \in 1 .. Len(kids)}
                values == UNION {of(i) : i \in 1 .. Len(kids)}
            IN {o \in [keys -> values] :
                  \A i \in 1 .. Len(kids) : o[kids[i].key] \in of(i)}
     ELSE {}

\* def.defaultValue of the default node of the forest
DefaultValue == StringValue(Len("default"))

\* schema.safeParse(value) of node n: {success, data}.  The prefix of a
\* starts_with check is on every candidate, put there by the mapping.
RECURSIVE safeParse(_, _)
safeParse(n, value) ==
  LET s == Schemas[n]
      ok(data) == [success |-> TRUE, data |-> data]
      fail == [success |-> FALSE, data |-> None]
  IN IF s.type = "string"
       THEN IF value.kind = "string" /\ LengthChecksPass(s.checks, value.len)
              THEN ok(value) ELSE fail
     ELSE IF s.type = "number"
       THEN IF value.kind = "number" /\ SafeParseNumber(s.checks, value.v)
              THEN ok(value) ELSE fail
     ELSE IF s.type = "optional"
       THEN IF value = Undefined THEN ok(Undefined)
            ELSE safeParse(s.children[1].node, value)
     ELSE IF s.type = "default"
       THEN IF value = Undefined THEN ok(DefaultValue)
            ELSE safeParse(s.children[1].node, value)
     ELSE fail

\* zfc.outputOf(schema) on instance c; a behaviour compiles once
OutputOf ==
  /\ result = None
  /\ \E c \in DOMAIN zfcs, schema \in Nodes :
       result' = [tag |-> "outputOf", zfc |-> c, schema |-> schema,
                  value |-> outputOf(c, schema)]
  /\ UNCHANGED <<heap, zfcs, derived, guardVars, outValue>>

\* the arbitrary of outputOf handles one candidate of the input arbitrary:
\* safeParse, the guarded filter, the projection.  Values are followed on
\* the instance without overrides.
DrawOutput ==
  /\ result.tag = "outputOf"
  /\ result.value.tag = "arb"
  /\ result.value.base = "parsed"
  /\ Len(zfcs) = 1
  /\ total < MaxTotal
  /\ \E value \in InputValues(result.value.input, result.schema) :
       LET parsed == safeParse(result.schema, value)
           c == IF result.value.filters # <<>>
                  THEN GuardCall(successful, total, parsed.success)
                  ELSE [successful |-> successful, total |-> total,
                        outcome |-> "accept"]
       IN /\ parsed.success => successful < MaxSuccessful
          /\ successful' = c.successful
          /\ total' = c.total
          /\ outcome' = c.outcome
          /\ isSuccess' = parsed.success
          /\ outValue' =
               IF c.outcome = "raise" THEN GenerationError("")
               ELSE IF c.outcome = "reject" THEN [tag |-> "rejected", input |-> value]
               ELSE IF parsed.success
                 THEN [tag |-> "emitted", input |-> value, data |-> parsed.data]
               ELSE [tag |-> "thrown", input |-> value]
  /\ prevOutcome' = outcome
  /\ UNCHANGED <<registryVars, predicate>>

(***************************************************************************)
(* arbitraryBuilders.array and arbitraryBuilders.set                       *)
(* An array is modelled by its elements' indices, a set by its members.    *)
(***************************************************************************)
MinSize(n) == Chk("min_size", n, TRUE, "")
MaxSize(n) == Chk("max_size", n, TRUE, "")
SizeEquals(n) == Chk("size_equals", n, TRUE, "")

\* checks an array or set schema of the model may carry, and how many of them
MaxColChecks == 3
CollectionCheckSet(kind) ==
  IF kind = "array"
    THEN {MinLength(2), MinLength(5), MaxLength(4), MaxLength(7), LengthEquals(3)}
    ELSE {MinSize(2), MinSize(5), MaxSize(4), MaxSize(7), SizeEquals(3)}

\* fc.array / fc.uniqueArray(element, {minLength, maxLength}); the set builder
\* maps the unique array to new Set(members)
collectionBuilder(kind, checks) ==
  LET bounds == CollectionLoop(IF checks = NoChecks THEN <<>> ELSE checks)
  IN IF bounds.maxSet /\ bounds.minLength > bounds.maxLength THEN LibraryError
     ELSE [tag |-> "arb", base |-> IF kind = "set" THEN "uniqueArray" ELSE "array",
           minLength |-> bounds.minLength, maxLength |-> bounds.maxLength,
           maxSet |-> bounds.maxSet]

\* the lengths fc.array and fc.uniqueArray generate
CollectionLengths(arb) ==
  arb.minLength .. (IF arb.maxSet THEN arb.maxLength ELSE MaxDrawnLength)

CollectionInit ==
  /\ colKind \in {"array", "set"}
  /\ colChecks \in {NoChecks} \cup SeqsUpTo(CollectionCheckSet(colKind), MaxColChecks)
  /\ colArb = None
  /\ colValue = None

\* zfc.inputOf(schema) on the array or set schema
CompileCollection ==
  /\ colArb = None
  /\ colArb' = collectionBuilder(colKind, colChecks)
  /\ UNCHANGED <<colKind, colChecks, colValue>>

\* one value is drawn: n elements, pairwise distinct from fc.uniqueArray; the
\* set holds the members of the unique array
DrawCollection ==
  /\ colArb.tag = "arb"
  /\ \E n \in CollectionLengths(colArb) :
       LET members == [i \in 1 .. n |-> i]
       IN colValue' = IF colArb.base = "uniqueArray"
                        THEN [tag |-> "value", kind |-> "set",
                              members |-> {members[i] : i \in 1 .. n}]
                        ELSE [tag |-> "value", kind |-> "array", members |-> members]
  /\ UNCHANGED <<colKind, colChecks, colArb>>

(***************************************************************************)
(* arbitraryBuilders.bigint.  A bigint is an exact integer.                *)
(***************************************************************************)
\* checks a bigint schema of the model may carry, and how many of them
MaxBigChecks == 3
BigIntCheckSet ==
  {GreaterThan(5, TRUE), GreaterThan(5, FALSE), GreaterThan(10, FALSE),
   LessThan(10, FALSE), LessThan(15, TRUE), LessThan(20, FALSE),
   MultipleOf(2)}

\* the loop over the checks: min and max start undefined
BigIntLoopInit == [min |-> 0, minSet |-> FALSE, max |-> 0, maxSet |-> FALSE]
BigIntLoopStep(st, check) ==
  IF check.check = "greater_than"
    THEN LET gtValue == IF check.inclusive THEN check.value ELSE check.value + 1
         IN [st EXCEPT !.min = IF ~st.minSet \/ gtValue < st.min THEN gtValue ELSE st.min,
                       !.minSet = TRUE]
  ELSE IF check.check = "less_than"
    THEN LET ltValue == IF check.inclusive THEN check.value ELSE check.value - 1
         IN [st EXCEPT !.max = IF ~st.maxSet \/ ltValue > st.max THEN ltValue ELSE st.max,
                       !.maxSet = TRUE]
  ELSE st
RECURSIVE BigIntLoop(_)
BigIntLoop(checks) ==
  IF checks = <<>> THEN BigIntLoopInit
  ELSE BigIntLoopStep(BigIntLoop(SubSeq(checks, 1, Len(checks) - 1)), checks[Len(checks)])

\* arbitraryBuilders.bigint(schema, path): fc.bigInt() or fc.bigInt({min, max})
bigintBuilder(checks) ==
  IF checks = NoChecks
    THEN [tag |-> "arb", base |-> "bigInt", min |-> 0, minSet |-> FALSE,
          max |-> 0, maxSet |-> FALSE]
  ELSE
    LET st == BigIntLoop(checks)
    IN IF st.minSet /\ st.maxSet /\ st.min > st.max THEN LibraryError
       ELSE [tag |-> "arb", base |-> "bigInt", min |-> st.min, minSet |-> st.minSet,
             max |-> st.max, maxSet |-> st.maxSet]

\* the bigints fc.bigInt generates: an undefined bound is far away
MaxDrawnBigInt == 22
BigIntCandidates(arb) ==
  (IF arb.minSet THEN arb.min ELSE -MaxDrawnBigInt) ..
    (IF arb.maxSet THEN arb.max ELSE MaxDrawnBigInt)

BigIntInit ==
  /\ bigChecks \in {NoChecks} \cup SeqsUpTo(BigIntCheckSet, MaxBigChecks)
  /\ bigArb = None
  /\ bigValue = None

\* zfc.inputOf(schema) on the bigint schema
CompileBigInt ==
  /\ bigArb = None
  /\ bigArb' = bigintBuilder(bigChecks)
  /\ UNCHANGED <<bigChecks, bigValue>>

\* one value is drawn; the builder attaches no filter
DrawBigInt ==
  /\ bigArb.tag = "arb"
  /\ \E v \in BigIntCandidates(bigArb) : bigValue' = [tag |-> "value", v |-> v]
  /\ UNCHANGED <<bigChecks, bigArb>>

\* one value is drawn from the arbitrary inputOf returned
DrawInput ==
  /\ result.tag = "call"
  /\ result.value.tag = "arb"
  /\ \E value \in InputValues(result.value, result.schema) :
       inValue' = [tag |-> "value", value |-> value]
  /\ UNCHANGED registryVars

(***************************************************************************)
(* Several guards.  Every call of throwIfSuccessRateBelow opens a scope    *)
(* with its own `successful` and `total` and returns a closure over it.    *)
(***************************************************************************)
\* closures the model creates
MaxGuards == 2
\* candidates one draw hands to a closure: half of the warm-up, or one more
RunLengths == {MIN_RUNS \div 2, MIN_RUNS \div 2 + 1}

\* one scope for all closures, as if the counters were module variables
\* (mutant)
NewScope_moduleLevel(scopes) ==
  IF scopes = <<>>
    THEN [scopes |-> <<[successful |-> 0, total |-> 0]>>, ref |-> 1]
    ELSE [scopes |-> scopes, ref |-> 1]

\* let successful = 0; let total = 0; in a scope of its own
NewScope(scopes) ==
  [scopes |-> Append(scopes, [successful |-> 0, total |-> 0]), ref |-> Len(scopes) + 1]

\* n calls of a closure in a row, as the filter of an arbitrary makes them
\* for one draw: the predicate rejects every candidate before the last and
\* returns r for the last; a raise ends the draw.  The calls are made one
\* after the other, the first half of them before the second.
RECURSIVE GuardRun(_, _, _, _)
\* after a call that ended as c: the exception propagates, or n more calls
GuardRunOn(c, n, r) ==
  IF c.outcome = "raise" THEN c ELSE GuardRun(c.successful, c.total, n, r)
GuardRun(s, t, n, r) ==
  IF n = 1 THEN GuardCall(s, t, r)
  ELSE GuardRunOn(GuardRun(s, t, n \div 2, FALSE), n - n \div 2, r)

\* the counter values a draw can start from, and GuardRun on each of them;
\* the table is computed once
RunStarts == {0} \cup RunLengths \cup {a + b : a, b \in RunLengths}
GuardRunTable ==
  {<<x, GuardRun(x[1], x[2], x[3], x[4])>> :
     x \in (0 .. Cardinality(RunLengths)) \X RunStarts \X RunLengths \X BOOLEAN}
GuardRunAt(s, t, n, r) == (CHOOSE p \in GuardRunTable : p[1] = <<s, t, n, r>>)[2]

ClosuresInit ==
  /\ counters = <<>>
  /\ guards = <<>>
  /\ acted = 0

\* filterArbitraryBySchema(arbitrary, schema, path) during a compile: a new
\* closure for the node at `path`
CreateGuard ==
  /\ Len(guards) < MaxGuards
  /\ \E path \in NumberPaths :
       LET scope == NewScope(counters)
       IN /\ counters' = scope.scopes
          /\ guards' = Append(guards, [scope |-> scope.ref, path |-> path,
                                       outcome |-> "none"])
  /\ acted' = 0

\* one draw from the arbitrary filtered by closure g; a draw that raised ends
\* the use of that arbitrary
RunGuard(g) ==
  /\ guards[g].outcome # "raise"
  /\ \E n \in RunLengths, r \in BOOLEAN :
       LET ref == guards[g].scope
           c == GuardRunAt(counters[ref].successful, counters[ref].total, n, r)
       IN /\ counters' = [counters EXCEPT
                            ![ref] = [successful |-> c.successful, total |-> c.total]]
          /\ guards' = [guards EXCEPT ![g].outcome = c.outcome]
  /\ acted' = g

(***************************************************************************)
(* Enum builder                                                            *)
(***************************************************************************)
\* properties an entries object has at most
MaxEntries == 3
\* property names: member names and the decimal names of reverse mappings
EnumKeys == {"A", "B", "1", "2"}
EnumString(s) == [kind |-> "string", str |-> s]
EnumNumber(n) == [kind |-> "number", num |-> n]
\* property values: Record<string | number, string | number>
EnumValues ==
  {EnumString("A"), EnumString("B"), EnumString("x"), EnumNumber(1), EnumNumber(2)}
\* the entries objects: every assignment of values to up to MaxEntries names
EntriesObjects ==
  UNION {[keys -> EnumValues] :
           keys \in {ks \in SUBSET EnumKeys : Cardinality(ks) \in 1 .. MaxEntries}}

DecimalDigits == <<"0", "1", "2", "3", "4", "5", "6", "7", "8", "9">>
\* Number::toString of a non-negative integer
RECURSIVE NumberToString(_)
NumberToString(n) ==
  IF n < 10 THEN DecimalDigits[n + 1]
  ELSE NumberToString(n \div 10) \o DecimalDigits[(n % 10) + 1]

\* ToPropertyKey(v): a string is the key itself, a number its decimal name
ToPropertyKey(v) == IF v.kind = "string" THEN v.str ELSE NumberToString(v.num)

\* obj[v]: the own property named by v, undefined where there is none
GetProperty(obj, v) ==
  IF ToPropertyKey(v) \in DOMAIN obj THEN obj[ToPropertyKey(v)] ELSE Undefined

\* getValidEnumValues(obj): the values of the keys whose value does not name
\* a property holding a number.  The array is kept as the set of its
\* elements: fc.oneof emits the same values whatever their order and number.
getValidEnumValues(obj) ==
  LET validKeys == {key \in DOMAIN obj : GetProperty(obj, obj[key]).kind # "number"}
  IN {obj[key] : key \in validKeys}

\* arbitraryBuilders.enum(schema); fc.oneof() of no generator throws
enumBuilder(entries) ==
  LET values == getValidEnumValues(entries)
  IN IF values = {} THEN LibraryError
     ELSE [tag |-> "arb", base |-> "oneof", values |-> values]

EnumIdle ==
  /\ enumEntries = None
  /\ enumArb = None
  /\ enumValue = None

\* inputOf on an enum schema with the entries object `entries`
CompileEnum ==
  /\ enumArb = None
  /\ \E entries \in EntriesObjects :
       /\ enumEntries' = [tag |-> "entries", obj |-> entries]
       /\ enumArb' = enumBuilder(entries)
  /\ enumValue' = None

\* one value drawn from the generator
DrawEnum ==
  /\ enumArb.tag = "arb"
  /\ \E value \in enumArb.values : enumValue' = [tag |-> "value", value |-> value]
  /\ UNCHANGED <<enumEntries, enumArb>>

\* the parts a specification does not follow stay as constructed
OutputIdle == outValue = None
CollectionIdle ==
  /\ colKind = "array"
  /\ colChecks = NoChecks
  /\ colArb = None
  /\ colValue = None
BigIntIdle ==
  /\ bigChecks = NoChecks
  /\ bigArb = None
  /\ bigValue = None
InputIdle == inValue = None
RestIdle == OutputIdle /\ CollectionIdle /\ BigIntIdle /\ InputIdle /\ ClosuresInit /\ EnumIdle
restVars == <<outputVars, collectionVars, bigintVars, inputVars, closureVars, enumVars>>

Init == RegistryInit /\ GuardIdle /\ StringIdle /\ NumberIdle /\ RestIdle
Next ==
  \/ Override /\ UNCHANGED <<guardVars, stringVars, numberVars, restVars>>
  \/ InputOf /\ UNCHANGED <<guardVars, stringVars, numberVars, restVars>>
Spec == Init /\ [][Next]_vars

InitGuard == RegistryInit /\ GuardInit /\ StringIdle /\ NumberIdle /\ RestIdle
NextGuard == Evaluate /\ UNCHANGED <<registryVars, stringVars, numberVars, restVars>>
SpecGuard == InitGuard /\ [][NextGuard]_vars

InitString == RegistryInit /\ GuardIdle /\ StringInit /\ NumberIdle /\ RestIdle
NextString ==
  \/ CompileString /\ UNCHANGED <<registryVars, guardVars, numberVars, restVars>>
  \/ DrawString /\ UNCHANGED <<registryVars, guardVars, numberVars, restVars>>
SpecString == InitString /\ [][NextString]_vars

InitNumber == RegistryInit /\ GuardIdle /\ StringIdle /\ NumberInit /\ RestIdle
NextNumber ==
  \/ CompileNumber /\ UNCHANGED <<registryVars, guardVars, stringVars, restVars>>
  \/ DrawNumber /\ UNCHANGED <<registryVars, guardVars, stringVars, restVars>>
SpecNumber == InitNumber /\ [][NextNumber]_vars

\* the overrides are registered first, then outputOf is called and values drawn
InitOutput == Init
NextOutput ==
  \/ result = None /\ Override
       /\ UNCHANGED <<guardVars, stringVars, numberVars, restVars>>
  \/ OutputOf
       /\ UNCHANGED <<stringVars, numberVars, collectionVars, bigintVars, inputVars,
                      closureVars, enumVars>>
  \/ DrawOutput
       /\ UNCHANGED <<stringVars, numberVars, collectionVars, bigintVars, inputVars,
                      closureVars, enumVars>>
SpecOutput == InitOutput /\ [][NextOutput]_vars

InitCollection ==
  /\ RegistryInit /\ GuardIdle /\ StringIdle /\ NumberIdle
  /\ OutputIdle /\ CollectionInit /\ BigIntIdle /\ InputIdle /\ ClosuresInit /\ EnumIdle
NextCollection ==
  \/ CompileCollection
       /\ UNCHANGED <<registryVars, guardVars, stringVars, numberVars, outputVars,
                      bigintVars, inputVars, closureVars, enumVars>>
  \/ DrawCollection
       /\ UNCHANGED <<registryVars, guardVars, stringVars, numberVars, outputVars,
                      bigintVars, inputVars, closureVars, enumVars>>
SpecCollection == InitCollection /\ [][NextCollection]_vars

InitBigInt ==
  /\ RegistryInit /\ GuardIdle /\ StringIdle /\ NumberIdle
  /\ OutputIdle /\ CollectionIdle /\ BigIntInit /\ InputIdle /\ ClosuresInit /\ EnumIdle
NextBigInt ==
  \/ CompileBigInt
       /\ UNCHANGED <<registryVars, guardVars, stringVars, numberVars, outputVars,
                      collectionVars, inputVars, closureVars, enumVars>>
  \/ DrawBigInt
       /\ UNCHANGED <<registryVars, guardVars, stringVars, numberVars, outputVars,
                      collectionVars, inputVars, closureVars, enumVars>>
SpecBigInt == InitBigInt /\ [][NextBigInt]_vars

InitClosures == Init
NextClosures ==
  \/ CreateGuard
       /\ UNCHANGED <<registryVars, guardVars, stringVars, numberVars, outputVars,
                      collectionVars, bigintVars, inputVars, enumVars>>
  \/ \E g \in DOMAIN guards :
       RunGuard(g)
         /\ UNCHANGED <<registryVars, guardVars, stringVars, numberVars, outputVars,
                        collectionVars, bigintVars, inputVars, enumVars>>
SpecClosures == InitClosures /\ [][NextClosures]_vars

InitEnum == Init
NextEnum ==
  \/ CompileEnum
       /\ UNCHANGED <<registryVars, guardVars, stringVars, numberVars, outputVars,
                      collectionVars, bigintVars, inputVars, closureVars>>
  \/ DrawEnum
       /\ UNCHANGED <<registryVars, guardVars, stringVars, numberVars, outputVars,
                      collectionVars, bigintVars, inputVars, closureVars>>
SpecEnum == InitEnum /\ [][NextEnum]_vars

\* inputOf on the instance without overrides, then values are drawn
InitInput == Init
NextInput ==
  \/ InputOf /\ UNCHANGED <<guardVars, stringVars, numberVars, restVars>>
  \/ DrawInput
       /\ UNCHANGED <<guardVars, stringVars, numberVars, outputVars, collectionVars,
                      bigintVars, closureVars, enumVars>>
SpecInput == InitInput /\ [][NextInput]_vars

(***************************************************************************)
(* Claims on the override registry and the traversal (Spec)                *)
(***************************************************************************)
\* C1: override(schema, g) on an instance returns a new instance and leaves
\* every existing instance's override table as it was; the new instance's
\* table is the table of the instance it was called on plus schema -> g.
C1_OverrideLeavesOriginal ==
  [][/\ \A c \in DOMAIN zfcs : Table(c)' = Table(c)
     /\ Len(zfcs') > Len(zfcs) =>
          LET call == derived'[Len(zfcs')]
          IN heap'[zfcs'[Len(zfcs')]] =
               [Table(call.from) EXCEPT ![call.schema] = call.arbitrary]]_vars

\* an override made on a derived instance, whose table differs from its origin's
C1_Witness ==
  /\ Len(zfcs) = 3
  /\ derived[2].from = 1
  /\ derived[3].from = 2
  /\ derived[3].schema # derived[2].schema
  /\ Table(1) = EmptyTable
  /\ Table(2) = [EmptyTable EXCEPT ![derived[2].schema] = derived[2].arbitrary]
  /\ Table(3) # Table(2)

IsOverrideArb(v) == v.tag = "arb" /\ v.base \in {"override", "factoryResult"}

\* C2: the lookup is by node identity: compiling a node yields an override's
\* generator exactly when that very node has an entry, and then it is the
\* generator of that entry; a distinct node of the same structure goes through
\* kind dispatch.
C2_LookupByIdentity ==
  result.tag = "call" =>
    LET entry == Table(result.zfc)[result.schema]
    IN /\ IsOverrideArb(result.value) <=> entry # None
       /\ entry # None => result.value.id = entry.id

\* a node compiled by kind dispatch while its structural twin is overridden
C2_Witness ==
  /\ result.tag = "call"
  /\ Table(result.zfc)[result.schema] = None
  /\ \E n \in Nodes : /\ n # result.schema
                      /\ SameStructure(n, result.schema)
                      /\ Table(result.zfc)[n] # None
  /\ result.value.tag = "arb"
  /\ result.value.base = "string"

\* C3: the override lookup comes before the kind is read: compiling an
\* overridden node returns exactly the override's generator and raises no
\* error, also when the node's kind is unsupported, a descendant is
\* unsupported or its bounds are unsatisfiable.
C3_OverrideBeforeDispatch ==
  result.tag = "call" /\ Table(result.zfc)[result.schema] # None =>
    LET entry == Table(result.zfc)[result.schema]
    IN result.value = IF entry.tag = "factory"
                        THEN FactoryResult(entry.id, result.zfc)
                        ELSE FixedArbitrary(entry.id)

\* an overridden node compiled without error that fails without the override
C3_Witness ==
  /\ result.tag = "call"
  /\ Table(result.zfc)[result.schema] # None
  /\ result.value.tag = "arb"
  /\ Table(1) = EmptyTable
  /\ inputWithPath(1, result.schema, "").tag = "error"

\* the parent of a node in the schema forest and the key it is reached by
Parents(n) == {p \in Nodes : \E i \in DOMAIN Schemas[p].children :
                               Schemas[p].children[i].node = n}
KeyOf(p, n) ==
  LET i == CHOOSE i \in DOMAIN Schemas[p].children : Schemas[p].children[i].node = n
  IN Schemas[p].children[i].key

\* the path segment the claim gives for a child access
Segment(p, n) ==
  LET t == Schemas[p].type
  IN IF t = "object" THEN "." \o KeyOf(p, n)
     ELSE IF t = "array" THEN "[*]"
     ELSE IF t = "tuple" THEN "[" \o KeyOf(p, n) \o "]"
     ELSE IF t = "record" THEN IF KeyOf(p, n) = "key" THEN "" ELSE "[*]"
     ELSE IF t = "map" THEN IF KeyOf(p, n) = "key" THEN ".(key)" ELSE ".(value)"
     ELSE IF t = "function" THEN ".(return type)"
     ELSE IF t = "promise" THEN ".(resolved type)"
     ELSE ""

\* the nodes of the tree under root that instance c interprets (none of their
\* ancestors up to root, nor they, are overridden), each with its path
RECURSIVE Chain(_, _)
Chain(root, n) ==
  IF n = root THEN {n}
  ELSE IF Parents(n) = {} THEN {}
  ELSE LET up == Chain(root, CHOOSE p \in Parents(n) : TRUE)
       IN IF up = {} THEN {} ELSE up \cup {n}
\* for every root, the nodes from it down to each node under it
ChainTable == [root \in Nodes |-> [n \in Nodes |-> Chain(root, n)]]
Visible(c, root, n) ==
  /\ ChainTable[root][n] # {}
  /\ \A m \in ChainTable[root][n] : Table(c)[m] = None
RECURSIVE PathWalk(_, _)
PathWalk(root, n) ==
  IF n = root THEN ""
  ELSE LET p == CHOOSE p \in Parents(n) : TRUE
       IN PathWalk(root, p) \o Segment(p, n)
PathTable ==
  [root \in Nodes |-> [n \in Nodes |->
     IF ChainTable[root][n] = {} THEN "" ELSE PathWalk(root, n)]]
PathFrom(root, n) == PathTable[root][n]
Shown(path) == IF path = "" THEN "." ELSE path

\* the kind the error names: the never kind, or the name of the schema class
KindName(n) ==
  IF Schemas[n].type = "never" THEN "Never"
  ELSE SubSeq(Schemas[n].ctor, 4, Len(Schemas[n].ctor))
Unsupported(n) == Schemas[n].type \notin Builders \/ Schemas[n].type = "never"
UnsupportedNodes == {n \in Nodes : Unsupported(n)}
UnsupportedVisible(c, root) == {n \in UnsupportedNodes : Visible(c, root, n)}
\* a number node whose integer bounds are inverted
Inverted(n) ==
  /\ Schemas[n].type = "number"
  /\ LET st == SafeIntClamp(NumberLoop(Schemas[n].checks))
     IN st.multipleOfSet /\ IntegerMin(st) > IntegerMax(st)
InvertedNodes == {n \in Nodes : Inverted(n)}
InvertedVisible(c, root) == {n \in InvertedNodes : Visible(c, root, n)}
\* a string node whose length range the generator library rejects
Rejected(n) ==
  /\ Schemas[n].type = "string"
  /\ \E i, j \in DOMAIN Schemas[n].checks :
       /\ Schemas[n].checks[i].check = "min_length"
       /\ Schemas[n].checks[j].check = "max_length"
       /\ Schemas[n].checks[i].value > Schemas[n].checks[j].value
RejectedNodes == {n \in Nodes : Rejected(n)}
RejectedVisible(c, root) == {n \in RejectedNodes : Visible(c, root, n)}

NamesUnsupported(c, root, v) ==
  /\ v.tag = "error"
  /\ v.type = "ZodFastCheckUnsupportedSchemaError"
  /\ \E n \in UnsupportedVisible(c, root) :
       v.kind = KindName(n) /\ v.path = Shown(PathFrom(root, n))

C5_WarmUpReturnsPredicate ==
  total \in 1 .. MIN_RUNS =>
    outcome = IF isSuccess THEN "accept" ELSE "reject"

\* the 1000th evaluation of a guard that has seen rejections only
C5_Witness ==
  /\ total = MIN_RUNS
  /\ successful = 0
  /\ ~isSuccess
  /\ outcome = "reject"

\* C6 as claimed: once an evaluation of a guard has raised, every later
\* evaluation of that guard raises too, whatever the predicate returns.
C6_Original ==
  [][outcome = "raise" => outcome' = "raise"]_vars

\* C6 as amended: the guard keeps no memory of having raised.  After an
\* evaluation has raised, the next one raises exactly when the ratio that
\* includes its own value is still below 1%: always when the predicate
\* rejects the value, not necessarily when the predicate accepts it.
C6_RaiseFollowsRatio ==
  [][outcome = "raise" =>
       /\ outcome' = "raise" <=> successful' * 100 < MIN_SUCCESS_RATE_PCT * total'
       /\ ~isSuccess' => outcome' = "raise"]_vars

\* a raise followed by a raise on a rejected value, accepted values before it
C6_Witness ==
  /\ prevOutcome = "raise"
  /\ outcome = "raise"
  /\ ~isSuccess
  /\ successful > 0

\* C7: a guarded filter whose predicate rejects every candidate emits no value
\* and raises at the 1001st candidate: no evaluation beyond the 1000th ends
\* without the Generation error.
C7_AlwaysFalseRaises ==
  predicate = "alwaysFalse" =>
    /\ successful = 0
    /\ outcome # "accept"
    /\ total > MIN_RUNS => outcome = "raise"

\* the 1001st candidate of an always-false predicate raises
C7_Witness ==
  /\ predicate = "alwaysFalse"
  /\ total = MIN_RUNS + 1
  /\ prevOutcome = "reject"
  /\ outcome = "raise"

(***************************************************************************)
(* Claims on the string builder (SpecString)                               *)
(***************************************************************************)
\* C8: every rejection filter attached to a compiled generator is wrapped in
\* the Success-Rate Guard, so that a draw whose candidates are all rejected
\* ends with the Generation error.
C8_EveryFilterGuarded ==
  strArb.tag = "arb" =>
    \A i \in 1 .. Len(strArb.filters) : strArb.filters[i].guarded

\* the length checks of a string schema, in their order
IsLengthCheck(c) == c.check \in {"min_length", "max_length", "length_equals"}
\* the bounds the length checks resolve to
ResolvedLength(checks) == StringLoop(SelectSeq(checks, IsLengthCheck))

\* C9: when the checks of a string schema resolve to minLength = a and
\* maxLength = b, every emitted value has its length in [a, b], whatever
\* affixes and formats the schema carries besides.
C9_LengthWithinBounds ==
  (strValue.tag = "value" /\ strChecks # NoChecks
     /\ ResolvedLength(strChecks).maxSet) =>
    /\ strValue.len >= ResolvedLength(strChecks).minLength
    /\ strValue.len <= ResolvedLength(strChecks).maxLength

(***************************************************************************)
(* Claims on the number builder (SpecNumber)                               *)
(***************************************************************************)
\* a number schema with the safe-integer format, a multiple-of check and
\* nothing besides them but minimum and maximum bounds
IsSafeIntMultiple(checks) ==
  /\ checks # NoChecks
  /\ \E i \in 1 .. Len(checks) :
       checks[i].check = "number_format" /\ checks[i].format = "safeint"
  /\ \E i \in 1 .. Len(checks) : checks[i].check = "multiple_of"
  /\ \A i \in 1 .. Len(checks) :
       checks[i].check \in {"number_format", "multiple_of", "greater_than", "less_than"}

\* C10: every value emitted for a number schema with the safe-integer format
\* and multiple-of checks is an integer, a multiple of each factor, satisfies
\* each declared bound and lies in the safe-integer range.
C10_SafeIntMultiples ==
  (numValue.tag = "value" /\ IsSafeIntMultiple(numChecks)) =>
    /\ numValue.v % Unit = 0
    /\ Abs(numValue.v) <= MAX_SAFE_INTEGER
    /\ \A i \in 1 .. Len(numChecks) :
         LET c == numChecks[i] IN
         /\ c.check = "multiple_of" => numValue.v % (c.value * Unit) = 0
         /\ c.check = "greater_than" =>
              IF c.inclusive THEN numValue.v >= c.value ELSE numValue.v > c.value
         /\ c.check = "less_than" =>
              IF c.inclusive THEN numValue.v <= c.value ELSE numValue.v < c.value

\* a number schema whose single custom check is "x is divisible by 3"
SingleDivisibleBy3(checks) ==
  /\ checks # NoChecks
  /\ Cardinality({i \in 1 .. Len(checks) : checks[i].check = "custom"}) = 1
  /\ \E i \in 1 .. Len(checks) : checks[i] = Custom("divisibleBy3")
\* the bounds the custom-check branch hands to the detector
ResolvedMin(checks) == SafeIntClamp(NumberLoop(checks)).min
ResolvedMax(checks) ==
  LET st == SafeIntClamp(NumberLoop(checks))
  IN IF st.maxSet THEN st.max
     ELSE IF st.hasSafeIntFormat THEN MAX_SAFE_INTEGER ELSE DEFAULT_MAX
\* (integer in ceil(min/3) .. floor(max/3)) * 3, unfiltered
MultiplesOf3(checks) ==
  NumberArb("integer", Ceil(ResolvedMin(checks), 3 * Unit),
            Floor(ResolvedMax(checks), 3 * Unit), 3, <<>>)

\* C11 as claimed: the generator compiled for such a schema is built directly
\* as (integer in ceil(min/3) .. floor(max/3)) * 3 with no rejection filter.
C11_Original ==
  (numArb.tag = "arb" /\ SingleDivisibleBy3(numChecks)) =>
    numArb = MultiplesOf3(numChecks)

\* C11 as amended: when the resolved range holds a multiple of 3, the compiled
\* generator is (integer in ceil(min/3) .. floor(max/3)) * 3 with no rejection
\* filter; when it holds none, the generator is the base generator filtered by
\* the schema under the Success-Rate Guard.  Every emitted value v has
\* v % 3 = 0; on the direct path min <= v <= max for the resolved bounds, on
\* the filtered path v passes the parse of the schema.
C11_ModuloThreeDetected ==
  (numArb.tag = "arb" /\ SingleDivisibleBy3(numChecks)) =>
    IF Ceil(ResolvedMin(numChecks), 3 * Unit) <= Floor(ResolvedMax(numChecks), 3 * Unit)
      THEN /\ numArb = MultiplesOf3(numChecks)
           /\ numValue.tag = "value" =>
                /\ numValue.v % (3 * Unit) = 0
                /\ ResolvedMin(numChecks) <= numValue.v
                /\ numValue.v <= ResolvedMax(numChecks)
      ELSE /\ numArb.filters # <<>>
           /\ numArb.filters[Len(numArb.filters)] = Filter("safeParse", TRUE)
           /\ numValue.tag = "value" =>
                /\ numValue.v % (3 * Unit) = 0
                /\ SafeParseNumber(numChecks, numValue.v)

\* a multiple of 3 emitted between declared bounds that are no multiples of 3
C11_Witness ==
  /\ SingleDivisibleBy3(numChecks)
  /\ numArb = MultiplesOf3(numChecks)
  /\ ResolvedMin(numChecks) = 5 * Unit + 1
  /\ ResolvedMax(numChecks) = 10 * Unit
  /\ numValue.tag = "value"
  /\ numValue.v = 6 * Unit

(***************************************************************************)
(* Claims on outputOf (SpecOutput)                                         *)
(***************************************************************************)
IsScalar(n) == isFirstPartyType(n) /\ Schemas[n].type \in SCALAR_TYPES

\* C12: outputOf on a schema of a scalar kind returns exactly what inputOf
\* returns for it on the same instance: no parse step and no filter is added.
C12_ScalarOutputIsInput ==
  (result.tag = "outputOf" /\ IsScalar(result.schema)) =>
    result.value = inputWithPath(result.zfc, result.schema, "")

\* a scalar node compiled by its builder on an instance that holds overrides
C12_Witness ==
  /\ result.tag = "outputOf"
  /\ IsScalar(result.schema)
  /\ Len(zfcs) > 1
  /\ result.value.tag = "arb"
  /\ result.value.base = "string"
  /\ result.value.affix > 0

\* C13: for a schema that is not of a scalar kind, outputOf parses each
\* generated input, keeps the successful parses through a Success-Rate Guard
\* and projects to the parsed value: every emitted value is the parsed value
\* of a generated input whose parse succeeded, a failed parse is never
\* projected, and the guard raises the Generation error when the successes
\* fall below the floor.
C13_OutputIsSuccessfulParse ==
  (result.tag = "outputOf" /\ result.value.tag = "arb" /\ ~IsScalar(result.schema)) =>
    /\ result.value.base = "parsed"
    /\ result.value.input = inputWithPath(result.zfc, result.schema, "")
    /\ result.value.filters = <<Filter("success", TRUE)>>
    /\ outValue.tag # "thrown"
    /\ outValue.tag = "emitted" =>
         /\ outValue.input \in InputValues(result.value.input, result.schema)
         /\ safeParse(result.schema, outValue.input).success
         /\ outValue.data = safeParse(result.schema, outValue.input).data
    /\ outValue.tag = "rejected" => ~safeParse(result.schema, outValue.input).success
    /\ outValue # None =>
         (outValue = GenerationError("") <=>
            (total > MIN_RUNS /\ successful * 100 < MIN_SUCCESS_RATE_PCT * total))

\* a default applied by the parse is emitted after rejected inputs were counted
C13_Witness ==
  /\ result.tag = "outputOf"
  /\ Schemas[result.schema].type = "default"
  /\ outValue.tag = "emitted"
  /\ outValue.input = Undefined
  /\ outValue.data = DefaultValue
  /\ total > successful

(***************************************************************************)
(* Claims on the array and the set builder (SpecCollection)                *)
(***************************************************************************)
\* the size checks of zod on a collection of n elements
SizeChecksPass(checks, n) ==
  checks # NoChecks =>
    \A i \in 1 .. Len(checks) :
      /\ checks[i].check \in {"min_length", "min_size"} => n >= checks[i].value
      /\ checks[i].check \in {"max_length", "max_size"} => n <= checks[i].value
      /\ checks[i].check \in {"length_equals", "size_equals"} => n = checks[i].value

\* C14: every array emitted for an array schema satisfies every min-length,
\* max-length and length-equals check declared on the schema, also when a
\* kind of check is declared more than once.
C14_ArrayLengthChecks ==
  (colKind = "array" /\ colValue.tag = "value") =>
    SizeChecksPass(colChecks, Len(colValue.members))

\* C15: every set emitted for a set schema has pairwise distinct elements and
\* a size that satisfies every min-size, max-size and size-equals check
\* declared on the schema, also when a kind of check is declared more than
\* once.
C15_SetSizeChecks ==
  (colKind = "set" /\ colValue.tag = "value") =>
    SizeChecksPass(colChecks, Cardinality(colValue.members))

(***************************************************************************)
(* Claims on the values of inputOf (SpecInput)                             *)
(***************************************************************************)
\* the variants of a discriminated union whose generator emits value v
VariantsEmitting(arb, n, v) ==
  {i \in 1 .. Len(Schemas[n].children) :
     v \in InputValues(arb.parts[i], Schemas[n].children[i].node)}
\* the literal of the discriminator property "type" of variant i of node n
DiscriminatorOf(n, i) ==
  LET variant == Schemas[Schemas[n].children[i].node]
      k == CHOOSE k \in 1 .. Len(variant.children) : variant.children[k].key = "type"
  IN Schemas[variant.children[k].node].values[1]
\* the property names of variant i of node n
PropertiesOf(n, i) ==
  LET variant == Schemas[Schemas[n].children[i].node]
  IN {variant.children[k].key : k \in 1 .. Len(variant.children)}

\* C16: the generator of a discriminated union has one alternative per
\* declared variant, each compiled with the union's own path; every emitted
\* value comes from exactly one variant, carries that variant's literal in
\* its discriminator and has that variant's properties.
C16_DiscriminatedUnionVariants ==
  (result.tag = "call" /\ Schemas[result.schema].type = "discriminatedUnion"
     /\ result.value.tag = "arb") =>
    LET n == result.schema
        kids == Schemas[n].children
    IN /\ result.value.parts =
            [i \in 1 .. Len(kids) |-> inputWithPath(result.zfc, kids[i].node, "")]
       /\ inValue.tag = "value" =>
            /\ Cardinality(VariantsEmitting(result.value, n, inValue.value)) = 1
            /\ \A i \in VariantsEmitting(result.value, n, inValue.value) :
                 /\ inValue.value["type"] = LiteralValue(DiscriminatorOf(n, i))
                 /\ DOMAIN inValue.value = PropertiesOf(n, i)

\* a value of the second variant drawn from the union
C16_Witness ==
  /\ result.tag = "call"
  /\ Schemas[result.schema].type = "discriminatedUnion"
  /\ inValue.tag = "value"
  /\ inValue.value["type"] = LiteralValue("b")
  /\ inValue.value["b"].kind = "number"

(***************************************************************************)
(* Claims on inverted ranges                                               *)
(***************************************************************************)
\* C17: when the checks of a schema with a range fold to a resolved minimum
\* greater than the resolved maximum, compile raises the Generation error:
\* no generator is built and no other error is raised.  Stated on the
\* string builder, where the length checks are folded by max and min.
C17_InvertedRangeRaises ==
  (strArb # None /\ strChecks # NoChecks) =>
    LET st == StringLoop(strChecks)
    IN (st.returned = None /\ st.maxSet /\ st.minLength > st.maxLength) =>
         (strArb.tag = "error" /\ strArb.type = "ZodFastCheckGenerationError")

\* C18: on the integer path of the number builder (a multiple-of or an
\* integer format is present), when ceil(min / factor) > floor(max / factor)
\* after the bounds and the safe-integer clamp, compile raises the Generation
\* error that cites the path the builder was called with; no generator is
\* built, and the custom checks of the schema make no difference.
C18_InvertedIntegerBoundsRaise ==
  (numArb # None /\ numChecks # NoChecks) =>
    LET st == SafeIntClamp(NumberLoop(numChecks))
    IN (st.multipleOfSet /\ IntegerMin(st) > IntegerMax(st)) =>
         numArb = GenerationError(numPath)

\* a safe-integer schema with a lower bound beyond the safe integers and a
\* custom check, compiled as property "age" of an object
C18_Witness ==
  /\ numArb = GenerationError(".age")
  /\ numPath = ".age"
  /\ \E i \in 1 .. Len(numChecks) : numChecks[i].check = "custom"
  /\ \E i \in 1 .. Len(numChecks) : numChecks[i].check = "number_format"

(***************************************************************************)
(* Claims on the bigint builder (SpecBigInt)                               *)
(***************************************************************************)
\* C19: every bigint emitted for a bigint schema satisfies every
\* greater-than and less-than check declared on the schema (exclusive bounds
\* strictly), also when several checks of the same kind are declared.
C19_BigIntWithinDeclaredBounds ==
  (bigValue.tag = "value" /\ bigChecks # NoChecks) =>
    \A i \in 1 .. Len(bigChecks) :
      /\ bigChecks[i].check = "greater_than" =>
           IF bigChecks[i].inclusive THEN bigValue.v >= bigChecks[i].value
           ELSE bigValue.v > bigChecks[i].value
      /\ bigChecks[i].check = "less_than" =>
           IF bigChecks[i].inclusive THEN bigValue.v <= bigChecks[i].value
           ELSE bigValue.v < bigChecks[i].value

(***************************************************************************)
(* Claims on override factories (Spec)                                     *)
(***************************************************************************)
\* what findOverride returns for a stored entry when compile runs on c
EntryResult(entry, c) ==
  IF entry.tag = "factory" THEN FactoryResult(entry.id, c) ELSE FixedArbitrary(entry.id)

\* C20: wherever a compile meets a node with a stored entry, at the compiled
\* node or at a child of a compiled node, a factory entry is invoked with the
\* instance the compile was called on, whose own table holds that entry, and
\* the factory's result is returned; a fixed generator is returned as it is,
\* without being invoked.
C20_FactoryGetsCompilingInstance ==
  result.tag = "call" =>
    LET c == result.zfc
        n == result.schema
        kids == Schemas[n].children
    IN /\ Table(c)[n] # None =>
            /\ result.value = EntryResult(Table(c)[n], c)
            /\ Table(c)[n].tag = "factory" =>
                 /\ result.value.base = "factoryResult"
                 /\ Table(result.value.zfc)[n] = Table(c)[n]
            /\ Table(c)[n].tag # "factory" => result.value.base = "override"
       /\ (Table(c)[n] = None /\ result.value.tag = "arb" /\ kids # <<>>) =>
            \A i \in 1 .. Len(kids) :
              Table(c)[kids[i].node] # None =>
                result.value.parts[i] = EntryResult(Table(c)[kids[i].node], c)

\* a factory stored by the second instance and inherited by the third, met
\* at a property of the object the third instance compiles
C20_Witness ==
  /\ result.tag = "call"
  /\ result.zfc = 3
  /\ derived[3].from = 2
  /\ derived[2].schema = 2
  /\ derived[2].arbitrary.tag = "factory"
  /\ result.schema = 1
  /\ result.value.tag = "arb"
  /\ result.value.parts[1] = FactoryResult(derived[2].arbitrary.id, 3)

(***************************************************************************)
(* Claims on custom checks of number schemas (SpecNumber)                  *)
(***************************************************************************)
\* the custom checks of a list of checks
CustomChecksOf(checks) == {i \in 1 .. Len(checks) : checks[i].check = "custom"}

\* C21: every value emitted for a number schema that carries custom checks
\* satisfies every custom check and every other check of the schema, whether
\* the generator comes from the detector or from the filtering fallback.
C21_CustomChecksSatisfied ==
  (numValue.tag = "value" /\ numChecks # NoChecks /\ CustomChecksOf(numChecks) # {}) =>
    SafeParseNumber(numChecks, numValue.v)

\* predicate fn accepts the whole number t and rejects t - 1 and t + 1
IsEqualityOn(fn, t) ==
  /\ Refinement(fn, t * Unit)
  /\ ~Refinement(fn, (t - 1) * Unit)
  /\ ~Refinement(fn, (t + 1) * Unit)
\* the equality sentinels that lie in the resolved range and on which the
\* predicate is an equality
SentinelsHit(fn, checks) ==
  {i \in 1 .. Len(EqualityTestValues) :
     /\ IsEqualityOn(fn, EqualityTestValues[i])
     /\ EqualityTestValues[i] * Unit >= ResolvedMin(checks)
     /\ EqualityTestValues[i] * Unit <= ResolvedMax(checks)}

\* C22: when the single custom check of a number schema accepts an equality
\* sentinel v in the resolved range and rejects v - 1 and v + 1, the compiled
\* generator is the constant generator of v, also for v = 0.
C22_EqualitySentinelConstant ==
  (numArb.tag = "arb" /\ numChecks # NoChecks
     /\ Cardinality(CustomChecksOf(numChecks)) = 1) =>
    LET fn == numChecks[CHOOSE i \in CustomChecksOf(numChecks) : TRUE].format
        hits == SentinelsHit(fn, numChecks)
    IN hits # {} =>
         \E i \in hits :
           numArb = NumberArb("integer", EqualityTestValues[i],
                              EqualityTestValues[i], 1, <<>>)

(***************************************************************************)
(* Claims on the bounds of number schemas (SpecNumber)                     *)
(***************************************************************************)
\* the closed value of a bound check: an exclusive bound is moved by 0.001
ClosedValue(c) ==
  IF c.inclusive THEN c.value
  ELSE IF c.check = "greater_than" THEN PlusEps(c.value) ELSE MinusEps(c.value)
ClosedLowerBounds(checks) ==
  {ClosedValue(checks[i]) : i \in {k \in 1 .. Len(checks) : checks[k].check = "greater_than"}}
ClosedUpperBounds(checks) ==
  {ClosedValue(checks[i]) : i \in {k \in 1 .. Len(checks) : checks[k].check = "less_than"}}
Greatest(S) == CHOOSE x \in S : \A y \in S : y <= x
Least(S) == CHOOSE x \in S : \A y \in S : x <= y
\* the checks carry neither a format, a multiple-of nor a custom check, so the
\* resolved bounds are those of the floating-point generator
BoundsOnly(checks) ==
  \A i \in 1 .. Len(checks) : checks[i].check \in {"greater_than", "less_than"}

\* C23: after the checks of a number schema are folded in declaration order,
\* the lower bound is the greatest of -1e6 and the closed values of the
\* greater-than checks, the upper bound the least of the closed values of the
\* less-than checks (unset when there is none); no check lowers the lower
\* bound or raises the upper bound reached before it.  A floating-point
\* generator built from bounds alone carries these bounds.
C23_BoundsFolded ==
  (numArb # None /\ numChecks # NoChecks) =>
    LET st == NumberLoop(numChecks)
        uppers == ClosedUpperBounds(numChecks)
    IN /\ st.min = Greatest({DEFAULT_MIN} \cup ClosedLowerBounds(numChecks))
       /\ st.maxSet = (uppers # {})
       /\ uppers # {} => st.max = Least(uppers)
       /\ \A k \in 1 .. Len(numChecks) :
            LET before == NumberLoop(SubSeq(numChecks, 1, k - 1))
                after == NumberLoop(SubSeq(numChecks, 1, k))
            IN /\ after.min >= before.min
               /\ before.maxSet => (after.maxSet /\ after.max <= before.max)
       /\ (BoundsOnly(numChecks) /\ numArb.tag = "arb") =>
            /\ numArb.min = st.min
            /\ numArb.max = IF st.maxSet THEN Min(st.max, MAX_SAFE_INTEGER) ELSE DEFAULT_MAX

\* a looser lower bound and a looser upper bound declared after tighter ones,
\* and a value drawn from the generator
C23_Witness ==
  /\ numChecks # NoChecks
  /\ Len(numChecks) = 3
  /\ numChecks[1] = GreaterThan(5 * Unit, FALSE)
  /\ numChecks[2] = GreaterThan(5 * Unit, TRUE)
  /\ numChecks[3] = LessThan(10 * Unit, FALSE)
  /\ numArb.tag = "arb"
  /\ numArb.min = 5 * Unit + 1
  /\ numArb.max = 10 * Unit - 1
  /\ numValue.tag = "value"

\* the schema carries the safe-integer format
HasSafeIntFormat(checks) ==
  \E i \in 1 .. Len(checks) : checks[i] = NumberFormat("safeint")
InSafeRange(v) == -MAX_SAFE_INTEGER <= v /\ v <= MAX_SAFE_INTEGER
\* the resolved bounds equal the folded user bounds wherever these are inside
\* the safe-integer range
KeepsUserBounds(user, st) ==
  /\ InSafeRange(user.min) => st.min = user.min
  /\ (user.maxSet /\ InSafeRange(user.max)) => st.max = user.max

\* C24 as claimed: with the safe-integer format the resolved min and max both
\* lie in [MIN_SAFE_INTEGER, MAX_SAFE_INTEGER], equal the user bounds wherever
\* these are inside that range, and every emitted value lies in that range.
C24_Original ==
  (numArb # None /\ numChecks # NoChecks /\ HasSafeIntFormat(numChecks)) =>
    LET user == NumberLoop(numChecks)
        st == SafeIntClamp(user)
    IN /\ InSafeRange(st.min)
       /\ st.maxSet /\ InSafeRange(st.max)
       /\ KeepsUserBounds(user, st)
       /\ numValue.tag = "value" => InSafeRange(numValue.v)

\* C24 as amended: the clamp is one-sided.  After the user bounds are folded,
\* min is raised to MIN_SAFE_INTEGER and max lowered to MAX_SAFE_INTEGER, and
\* they equal the user bounds wherever these are inside the range; a user
\* lower bound above MAX_SAFE_INTEGER (or a user upper bound below
\* MIN_SAFE_INTEGER) stays outside the range, and compile then raises the
\* Generation error.  Whenever a generator is built both bounds lie in the
\* range, and so does every emitted value.
C24_SafeIntClampOneSided ==
  (numArb # None /\ numChecks # NoChecks /\ HasSafeIntFormat(numChecks)) =>
    LET user == NumberLoop(numChecks)
        st == SafeIntClamp(user)
    IN /\ st.min >= -MAX_SAFE_INTEGER
       /\ st.maxSet /\ st.max <= MAX_SAFE_INTEGER
       /\ KeepsUserBounds(user, st)
       /\ (~InSafeRange(st.min) \/ ~InSafeRange(st.max)) => numArb = GenerationError(numPath)
       /\ numArb.tag = "arb" => (InSafeRange(st.min) /\ InSafeRange(st.max))
       /\ (numArb.tag = "arb" /\ numArb.filters = <<>> /\ st.customChecks = <<>>) =>
            /\ numArb.min = IntegerMin(st)
            /\ numArb.max * st.multipleOf * Unit <= Min(st.max, MAX_SAFE_INTEGER)
       /\ numValue.tag = "value" => InSafeRange(numValue.v)

\* a user upper bound beyond the safe integers is lowered to MAX_SAFE_INTEGER,
\* the user lower bound is kept, and a value is drawn
C24_Witness ==
  /\ numChecks # NoChecks
  /\ HasSafeIntFormat(numChecks)
  /\ \E i \in 1 .. Len(numChecks) : numChecks[i] = LessThan(2100000 * Unit, TRUE)
  /\ \E i \in 1 .. Len(numChecks) : numChecks[i] = GreaterThan(5 * Unit, TRUE)
  /\ numArb.tag = "arb"
  /\ numArb.min = 5
  /\ numArb.max * Unit = MAX_SAFE_INTEGER
  /\ numValue.tag = "value"

(***************************************************************************)
(* Claims on the counters of the Success-Rate Guard (SpecGuard)            *)
(***************************************************************************)
\* C25: an evaluation of a guard raises if and only if, the evaluation itself
\* counted, total > 1000 and 100 * successful < total; otherwise it returns
\* the predicate's result (at a ratio of exactly 1% it does not raise).
\* Every evaluation, a raising one too, adds one to total and one to
\* successful exactly when the predicate accepts, so successful <= total.
C25_RaiseIffBelowRate ==
  /\ [](/\ successful <= total
        /\ total > 0 =>
             /\ outcome = "raise" <=> (total > MIN_RUNS /\ 100 * successful < total)
             /\ outcome # "raise" => outcome = IF isSuccess THEN "accept" ELSE "reject")
  /\ [][/\ total' = total + 1
        /\ successful' = IF isSuccess' THEN successful + 1 ELSE successful]_vars

\* the 1100th evaluation rejects its value at a ratio of exactly 1% and
\* returns the rejection
C25_Witness ==
  /\ total = 100 * 11
  /\ successful = 11
  /\ ~isSuccess
  /\ outcome = "reject"

(***************************************************************************)
(* Claims on several guards (SpecClosures)                                 *)
(***************************************************************************)
\* the counters closure g sees
CountersOf(g) == counters[guards[g].scope]

\* C26: the counters belong to the guard.  A guard starts with both counters
\* at 0, whatever other guards have counted, also a second guard for the
\* same node; a step that evaluates one guard leaves the counters and the
\* last outcome of every other guard as they were.
C26_CountersPerGuard ==
  [][/\ \A g \in DOMAIN guards' :
          g \notin DOMAIN guards =>
            /\ counters'[guards'[g].scope] = [successful |-> 0, total |-> 0]
            /\ guards'[g].outcome = "none"
     /\ \A g \in DOMAIN guards :
          g # acted' =>
            /\ counters'[guards'[g].scope] = CountersOf(g)
            /\ guards'[g] = guards[g]
     /\ \A g \in DOMAIN guards :
          g = acted' => counters'[guards'[g].scope].total > CountersOf(g).total]_vars

\* two guards for the same node: the first has raised at its 1001st
\* candidate, the second has then seen its first draw
C26_Witness ==
  /\ Len(guards) = 2
  /\ guards[1].path = guards[2].path
  /\ guards[1].outcome = "raise"
  /\ CountersOf(1).total = MIN_RUNS + 1
  /\ acted = 2
  /\ CountersOf(2).total = MIN_RUNS \div 2
  /\ guards[2].outcome # "raise"

(***************************************************************************)
(* Claims on length-equals checks of string schemas (SpecString)           *)
(***************************************************************************)
\* the checks are min-length, max-length and one length-equals(n) check with
\* every minimum <= n <= every maximum
PinnedLength(checks, n) ==
  /\ checks # NoChecks
  /\ \A i \in 1 .. Len(checks) : IsLengthCheck(checks[i])
  /\ Cardinality({i \in 1 .. Len(checks) : checks[i].check = "length_equals"}) = 1
  /\ \A i \in 1 .. Len(checks) :
       /\ checks[i].check = "length_equals" => checks[i].value = n
       /\ checks[i].check = "min_length" => checks[i].value <= n
       /\ checks[i].check = "max_length" => checks[i].value >= n

\* C27: for a string schema whose checks are min-length, max-length and one
\* length-equals(n) check with every min <= n <= every max, in any order, the
\* generator is fc.string with both lengths n and every emitted string has
\* length n.
C27_LengthEqualsPins ==
  \A n \in 0 .. MaxDrawnLength :
    (strArb # None /\ PinnedLength(strChecks, n)) =>
      /\ strArb = StringArb("string", n, n, 0, <<>>)
      /\ strValue.tag = "value" => strValue.len = n

\* length-equals declared first, a smaller minimum and a larger maximum after
\* it, and a string drawn
C27_Witness ==
  /\ strChecks = <<LengthEquals(3), MinLength(2), MaxLength(7)>>
  /\ strValue.tag = "value"
  /\ strValue.len = 3

(***************************************************************************)
(* Claims on the 32-bit formats of number schemas (SpecNumber)             *)
(***************************************************************************)
HasFormat(checks, f) == \E i \in 1 .. Len(checks) : checks[i] = NumberFormat(f)

\* C28: every value emitted for a number schema whose checks include the
\* int32 format is an integer in [-2^31, 2^31 - 1]; with the uint32 format,
\* an integer in [0, 2^32 - 1].
C28_ThirtyTwoBitRange ==
  (numValue.tag = "value" /\ numChecks # NoChecks) =>
    /\ HasFormat(numChecks, "int32") =>
         /\ numValue.v % Unit = 0
         /\ -INT32_MAX - Unit <= numValue.v /\ numValue.v <= INT32_MAX
    /\ HasFormat(numChecks, "uint32") =>
         /\ numValue.v % Unit = 0
         /\ 0 <= numValue.v /\ numValue.v <= UINT32_MAX

(***************************************************************************)
(* Claims on overrides of one node registered in succession (Spec)         *)
(***************************************************************************)
\* instance c2 was derived from c1 and c1 from c0, both times by an override
\* of node n, and c0 has no entry for n
TwiceOverridden(c0, c1, c2, n) ==
  /\ derived[c2].from = c1
  /\ derived[c1].from = c0
  /\ derived[c2].schema = n
  /\ derived[c1].schema = n
  /\ Table(c0)[n] = None

\* what compiling n on c yields when no entry is consulted: the builder of
\* the node's kind, or the unsupported-schema error for a kind without one
KindDispatch(c, n) ==
  IF isFirstPartyType(n) THEN Builder(c, n, "")
  ELSE unsupported(ConstructorTypeName(Schemas[n].ctor), "")

\* C29: after C1 = C.override(n, g1) and C2 = C1.override(n, g2), the one
\* entry of C2 for n is g2, the one entry of C1 for n is still g1 and C has
\* none; compiling n yields g2 on C2, g1 on C1 and goes through kind
\* dispatch on C.
C29_SecondOverrideReplaces ==
  \A c0, c1, c2 \in DOMAIN zfcs : \A n \in OverrideTargets :
    TwiceOverridden(c0, c1, c2, n) =>
      /\ Table(c2)[n] = derived[c2].arbitrary
      /\ Table(c1)[n] = derived[c1].arbitrary
      /\ (result.tag = "call" /\ result.schema = n) =>
           /\ result.zfc = c2 => result.value = EntryResult(derived[c2].arbitrary, c2)
           /\ result.zfc = c1 => result.value = EntryResult(derived[c1].arbitrary, c1)
           /\ result.zfc = c0 =>
                /\ ~IsOverrideArb(result.value)
                /\ result.value = KindDispatch(c0, n)

\* g1 then g2 registered for the first string node; the node is compiled on
\* the instance in the middle and yields g1
C29_Witness ==
  /\ Len(zfcs) = 3
  /\ TwiceOverridden(1, 2, 3, 2)
  /\ derived[2].arbitrary = [tag |-> "arbitrary", id |-> "g1"]
  /\ derived[3].arbitrary = [tag |-> "arbitrary", id |-> "g2"]
  /\ result.tag = "call"
  /\ result.zfc = 2
  /\ result.schema = 2
  /\ result.value = FixedArbitrary("g1")

(***************************************************************************)
(* Claims on the enum builder (SpecEnum)                                   *)
(***************************************************************************)
\* the property `key` is the reverse mapping of a numeric member: its name
\* is the decimal name of a number and its value is the name of a property
\* holding that number
IsReverseMapping(obj, key) ==
  /\ obj[key].kind = "string"
  /\ obj[key].str \in DOMAIN obj
  /\ obj[obj[key].str].kind = "number"
  /\ NumberToString(obj[obj[key].str].num) = key

\* the values of the declared members: every property but the reverse mappings
DeclaredValues(obj) == {obj[key] : key \in {k \in DOMAIN obj : ~IsReverseMapping(obj, k)}}

\* C30: for every entries object the enum builder returns a generator, and
\* the values it can emit are exactly the values of the declared members:
\* no reverse mapping is among them and no declared value is missing.
C30_EnumEmitsDeclaredValues ==
  enumArb # None =>
    /\ enumArb.tag = "arb"
    /\ enumArb.values = DeclaredValues(enumEntries.obj)

\* the values emitted are always among the declared ones (what does hold)
C30_EmittedAreDeclared ==
  (enumArb # None /\ enumArb.tag = "arb") =>
    enumArb.values \subseteq DeclaredValues(enumEntries.obj)

\* the mixed enum {A: "B", B: 1}: the generator emits 1 and never "B"
C30_MixedEnumDropsMember ==
  /\ enumEntries # None
  /\ enumEntries.obj = [k \in {"A", "B"} |->
                          IF k = "A" THEN EnumString("B") ELSE EnumNumber(1)]
  /\ enumArb.tag = "arb"
  /\ enumArb.values = {EnumNumber(1)}
  /\ enumValue # None
====
